---- MODULE Spec2Model ----
(***************************************************************************)
(* Orchestration engine of the bootstrap tool: the dependency resolver of  *)
(* the installer registry, the plan builder and the plan hash, the         *)
(* executor with its job semaphore, the lock manager, the retry loop and   *)
(* the checkpoint.                                                         *)
(***************************************************************************)
EXTENDS Integers, Sequences, FiniteSets, TLC

(***************************************************************************)
(* Bounds of the model.                                                    *)
(***************************************************************************)
\* longest dependency list an installer declares
MaxDeps == 1
\* longest list of requested tool ids
MaxReq == 2
\* recursion depth at which the thread's stack is exhausted
MaxStack == 4
\* longest tool list of a profile the executor is run on
MaxTools == 2
\* largest job count of a context
MaxJobs == 2
\* largest exit code a failing installation reports
MaxExitCode == 2
\* the clock of the lock model stops here (ms)
MaxTime == 700
\* the most locks a step of a caller-built plan requires
MaxLocks == 2
\* largest max_attempts of a retry policy
MaxAttempts == 3

(***************************************************************************)
(* Program constants.                                                      *)
(***************************************************************************)
\* first per-attempt timeout of acquire (ms)
InitialTimeoutMs == 100
\* cap of the per-attempt timeout (ms)
MaxTimeoutMs == 2000
\* overall deadline of acquire in CI mode (ms)
CiMaxWaitMs == 60000
\* cap of the requested wait in interactive mode (ms)
InteractiveCapMs == 180000
\* permits of every named lock
LockPermits == 1

\* registered installer ids
Ids == {"A", "B", "C"}
\* an id no installer is registered under
UnknownId == "X"
AllIds == Ids \cup {UnknownId}

\* sequences over S of length at most n
SeqUpTo(S, n) == UNION {[1..k -> S] : k \in 0..n}

Range(s) == {s[i] : i \in DOMAIN s}

NoErr == [kind |-> "none", id |-> "", exit_code |-> 0]
ToolNotFound(id) == [kind |-> "ToolNotFound", id |-> id, exit_code |-> 0]
\* unbounded recursion exhausts the stack and aborts the process
StackOverflow == [kind |-> "StackOverflow", id |-> "", exit_code |-> 0]
CyclicDependency == [kind |-> "CyclicDependency", id |-> "", exit_code |-> 0]

VARIABLES
    registry,        \* id -> [deps, concurrency_safe]
    required_tools,  \* the requested ids
    rpc,             \* "input" | "done"
    resolve_out,     \* [resolved, visited, err]
    now,             \* the clock (ms)
    sem,             \* lock name -> free permits of its semaphore
    acq,             \* task -> the acquire call it is in
    guards,          \* task -> the lock names of the LockGuards it owns
    lresult,         \* task -> what its last acquire or try_acquire returned
    plan,            \* what ExecutionPlan::compute returned
    max_jobs,        \* ctx.max_jobs
    job_permits,     \* free permits of the job semaphore
    epc,             \* where execute is: "phase_begin" | "await" | "seq" | "returned"
    phase_idx,       \* the phase execute is at
    next_idx,        \* the handle awaited next, or the step run next
    results,         \* the results of the current phase
    all_results,     \* the results of the completed phases
    ret,             \* what execute returned
    task,            \* <<phase, index>> -> the execution of that step
    phase_events,    \* what the reporter was told about phases: <<kind, phase name>>
    ctx,             \* what Context::with_config was given: [ci_mode, jobs, num_cpus]
    rpolicy,         \* the RetryPolicy of the retry_with_backoff call
    attempts,        \* attempts
    delay,           \* delay
    elapsed,         \* started.elapsed()
    rstart,          \* started.elapsed() when the last attempt was started
    outcomes,        \* what each call of the operation returned
    slept,           \* <<delay, actual_delay>> of each sleep
    rtpc,            \* "loop" | "sleep" | "done"
    rret,            \* what retry_with_backoff returned
    hin,             \* the registries and profiles two plans are computed from
    hout,            \* the two plans, their hashes, and the validity verdict
    cache_dir,       \* dirs::cache_dir()
    files,           \* path -> whether the file exists, and its text
    cp,              \* the Checkpoint in memory, if any
    saved,           \* the last save: its working tree and the Checkpoint saved
    loaded,          \* what the last load returned, and for which working tree
    berr,            \* the BootstrapError whose exit code is asked for
    bcode,           \* what exit_code returned, -1 before the call
    seq_counter,     \* safe-run: the AtomicU64 the sequence numbers come from
    events,          \* safe-run: the event ledger, [seq, stream] per event
    capture,         \* safe-run: stream -> the capture thread of that stream
    srpc             \* safe-run: where execute is: "idle" | "start" | "wait" | "exited"

resolver_vars == <<registry, required_tools, rpc, resolve_out>>
lock_vars == <<now, sem, acq, guards, lresult>>
exec_vars == <<plan, max_jobs, job_permits, epc, phase_idx, next_idx, results,
               all_results, ret, task, phase_events, ctx>>
retry_vars == <<rpolicy, attempts, delay, elapsed, rstart, outcomes, slept, rtpc, rret>>
hash_vars == <<hin, hout>>
ckpt_vars == <<cache_dir, files, cp, saved, loaded>>
exit_vars == <<berr, bcode>>
saferun_vars == <<seq_counter, events, capture, srpc>>
aux_vars == <<retry_vars, hash_vars, ckpt_vars, exit_vars, saferun_vars>>
vars == <<resolver_vars, lock_vars, exec_vars, aux_vars>>

(***************************************************************************)
(* InstallerRegistry::resolve_dependencies                                 *)
(***************************************************************************)
RegistryGet(reg, id) == id \in DOMAIN reg

Push(st, id) ==
    [st EXCEPT !.visited = @ \cup {id}, !.resolved = Append(@, id)]

RECURSIVE resolve_deps_recursive(_, _, _, _)
RECURSIVE resolve_each(_, _, _, _, _)

\* for dep in list { resolve_deps_recursive(dep)? } from position i
resolve_each(reg, list, i, st, depth) ==
    IF i > Len(list) \/ st.err.kind # "none"
    THEN st
    ELSE resolve_each(reg, list, i + 1,
                      resolve_deps_recursive(reg, list[i], st, depth), depth)

\* a mutant of resolve_deps_recursive: the id is marked visited and pushed
\* before its dependencies are resolved
resolve_deps_preorder(reg, id, st, depth) ==
    IF depth > MaxStack THEN [st EXCEPT !.err = StackOverflow]
    ELSE IF id \in st.visited THEN st
    ELSE IF ~RegistryGet(reg, id) THEN [st EXCEPT !.err = ToolNotFound(id)]
    ELSE resolve_each(reg, reg[id].deps, 1, Push(st, id), depth + 1)

\* a frame deeper than the stack allows aborts the process; otherwise the
\* visited check, the lookup, the dependencies, then the insert and the push
resolve_deps_recursive(reg, id, st, depth) ==
    IF depth > MaxStack THEN [st EXCEPT !.err = StackOverflow]
    ELSE IF id \in st.visited THEN st
    ELSE IF ~RegistryGet(reg, id) THEN [st EXCEPT !.err = ToolNotFound(id)]
    ELSE LET after == resolve_each(reg, reg[id].deps, 1, st, depth + 1)
         IN  IF after.err.kind # "none" THEN after ELSE Push(after, id)

resolve_dependencies(reg, ids) ==
    resolve_each(reg, ids, 1,
                 [resolved |-> <<>>, visited |-> {}, err |-> NoErr], 1)

\* what the caller receives: Ok(resolved), or the error alone
ResolveReturn(st) ==
    IF st.err.kind = "none"
    THEN [ok |-> TRUE, value |-> st.resolved, err |-> NoErr]
    ELSE [ok |-> FALSE, value |-> <<>>, err |-> st.err]

(***************************************************************************)
(* The dependency graph of a registry.                                     *)
(***************************************************************************)
DepEdge(reg, a, b) == a \in DOMAIN reg /\ b \in Range(reg[a].deps)

RECURSIVE ReachFrom(_, _, _)
ReachFrom(reg, frontier, seen) ==
    LET next == {b \in AllIds : \E a \in frontier : DepEdge(reg, a, b)} \ seen
    IN  IF next = {} THEN seen ELSE ReachFrom(reg, next, seen \cup next)

\* ids reachable from the set S, S included
Reachable(reg, S) == ReachFrom(reg, S, S)
\* ids reachable from a by at least one edge
ReachablePlus(reg, a) ==
    LET succ == {b \in AllIds : DepEdge(reg, a, b)} IN ReachFrom(reg, succ, succ)

CycleReachable(reg, ids) ==
    \E a \in Reachable(reg, Range(ids)) : a \in ReachablePlus(reg, a)
AllRegistered(reg, ids) == Reachable(reg, Range(ids)) \subseteq DOMAIN reg
Acyclic(reg) == \A a \in DOMAIN reg : a \notin ReachablePlus(reg, a)

Registries ==
    [Ids -> [deps : SeqUpTo(AllIds, MaxDeps), concurrency_safe : BOOLEAN]]

(***************************************************************************)
(* LockManager: one semaphore per registered name.                         *)
(***************************************************************************)
BREW_LOCK == "brew_lock"
APT_LOCK == "apt_lock"
CACHE_LOCK == "cache_lock"
VENV_LOCK == "venv_lock"
PACKAGE_MANAGER_LOCK == "package_manager_lock"

\* the names LockManager::new registers
LockNames == {BREW_LOCK, APT_LOCK, CACHE_LOCK, VENV_LOCK, PACKAGE_MANAGER_LOCK}
\* the names the tasks of the lock model ask for
AskedNames == {BREW_LOCK, PACKAGE_MANAGER_LOCK, "unknown_lock"}
\* the waits they ask for (ms)
AskedWaits == {100, 300}
Tasks == {"t1", "t2"}

Min(a, b) == IF a <= b THEN a ELSE b

\* a mutant of LockManagerNew: every semaphore starts with two permits
LockManagerNewTwo == [n \in LockNames |-> LockPermits + 1]

\* LockManager::new
LockManagerNew == [n \in LockNames |-> LockPermits]

\* LockManager::new of crate::bootstrap_v2::lock, the module executor.rs
\* imports its LockManager from
V2LockNames == {BREW_LOCK, APT_LOCK, CACHE_LOCK, VENV_LOCK}
V2LockManagerNew == [n \in V2LockNames |-> LockPermits]

\* a mutant of LocksGet: every name is taken for a registered one
LocksGetAny(name) == TRUE

\* self.locks.get(lock_name)
LocksGet(name) == name \in DOMAIN sem

\* a mutant of EffectiveMaxWait: the requested wait is never consulted
EffectiveMaxWaitFixed(max_wait, ci_mode) == CiMaxWaitMs

\* CI: 60 s; interactive: the requested wait, at most 180 s
EffectiveMaxWait(max_wait, ci_mode) ==
    IF ci_mode THEN CiMaxWaitMs ELSE Min(max_wait, InteractiveCapMs)

\* what acquire or try_acquire returned; the timeout error tells the time
\* waited
LockResult(status, waited) == [status |-> status, elapsed |-> waited, name |-> ""]
\* "Timeout waiting for lock {lock_name} after {elapsed}"
TimeoutError(name, waited) == [status |-> "timeout", elapsed |-> waited, name |-> name]

\* tries: the attempts of the call that have timed out
NoCall == [pc |-> "idle", name |-> "", max_wait |-> 0, ci_mode |-> FALSE,
           started |-> 0, timeout_duration |-> 0,
           timer |-> 0, effective_max_wait |-> 0, tries |-> 0]

LocksIdle ==
    /\ now = 0
    /\ sem = LockManagerNew
    /\ acq = [t \in Tasks |-> NoCall]
    /\ guards = [t \in Tasks |-> <<>>]
    /\ lresult = [t \in Tasks |-> LockResult("none", 0)]

\* the LockGuards of owner t for a name
GuardsOf(t, name) == Cardinality({i \in DOMAIN guards[t] : guards[t][i] = name})

RECURSIVE SumGuards(_, _)
SumGuards(S, name) ==
    IF S = {} THEN 0
    ELSE LET t == CHOOSE x \in S : TRUE
         IN  GuardsOf(t, name) + SumGuards(S \ {t}, name)

\* the LockGuards alive for a name
GuardCount(name) == SumGuards(DOMAIN guards, name)

\* acquire, up to its first attempt: an unknown name fails at once
AcquireCall(t, name, max_wait, ci_mode) ==
    /\ acq[t].pc = "idle"
    /\ IF ~LocksGet(name)
       THEN /\ lresult' = [lresult EXCEPT ![t] = LockResult("unknown", 0)]
            /\ UNCHANGED acq
       ELSE /\ acq' = [acq EXCEPT ![t] =
                    [pc |-> "attempt", name |-> name,
                     max_wait |-> max_wait, ci_mode |-> ci_mode, started |-> now,
                     timeout_duration |-> InitialTimeoutMs,
                     timer |-> now + InitialTimeoutMs,
                     effective_max_wait |-> EffectiveMaxWait(max_wait, ci_mode),
                     tries |-> 0]]
            /\ lresult' = [lresult EXCEPT ![t] = LockResult("none", 0)]
    /\ UNCHANGED <<now, sem, guards>>

\* timeout(timeout_duration, semaphore.acquire()) yields the permit
AttemptAcquired(t) ==
    /\ acq[t].pc = "attempt"
    /\ now <= acq[t].timer
    /\ sem[acq[t].name] > 0
    /\ sem' = [sem EXCEPT ![acq[t].name] = @ - 1]
    /\ guards' = [guards EXCEPT ![t] = Append(@, acq[t].name)]
    /\ lresult' = [lresult EXCEPT ![t] = LockResult("ok", 0)]
    /\ acq' = [acq EXCEPT ![t] = NoCall]
    /\ UNCHANGED now

\* the attempt timed out: give up past the deadline, else sleep
AttemptTimedOut(t) ==
    /\ acq[t].pc = "attempt"
    /\ now >= acq[t].timer
    /\ IF now - acq[t].started >= acq[t].effective_max_wait
       THEN /\ lresult' = [lresult EXCEPT ![t] =
                                TimeoutError(acq[t].name, now - acq[t].started)]
            /\ acq' = [acq EXCEPT ![t] = NoCall]
       ELSE /\ acq' = [acq EXCEPT ![t].pc = "sleep", ![t].tries = @ + 1,
                                  ![t].timer = now + Min(acq[t].timeout_duration, MaxTimeoutMs)]
            /\ UNCHANGED lresult
    /\ UNCHANGED <<now, sem, guards>>

\* a mutant of NextTimeout: the doubling has no cap
NextTimeoutUncapped(timeout_duration) == timeout_duration * 2

\* (timeout_duration * 2).min(max_timeout)
NextTimeout(timeout_duration) == Min(timeout_duration * 2, MaxTimeoutMs)

\* the sleep is over: double the timeout up to the cap and try again
SleepDone(t) ==
    /\ acq[t].pc = "sleep"
    /\ now >= acq[t].timer
    /\ LET d == NextTimeout(acq[t].timeout_duration)
       IN  acq' = [acq EXCEPT ![t].pc = "attempt", ![t].timeout_duration = d,
                              ![t].timer = now + d]
    /\ UNCHANGED <<now, sem, guards, lresult>>

\* semaphore.try_acquire() succeeds
SemTryAcquire(name) == sem[name] > 0

\* try_acquire
TryAcquire(t, name) ==
    /\ acq[t].pc = "idle"
    /\ IF ~LocksGet(name)
       THEN /\ lresult' = [lresult EXCEPT ![t] = LockResult("unknown", 0)]
            /\ UNCHANGED <<sem, guards>>
       ELSE IF SemTryAcquire(name)
       THEN /\ sem' = [sem EXCEPT ![name] = @ - 1]
            /\ guards' = [guards EXCEPT ![t] = Append(@, name)]
            /\ lresult' = [lresult EXCEPT ![t] = LockResult("ok", 0)]
       ELSE /\ lresult' = [lresult EXCEPT ![t] = LockResult("held", 0)]
            /\ UNCHANGED <<sem, guards>>
    /\ UNCHANGED <<now, acq>>

RemoveAt(s, i) == [k \in 1..(Len(s) - 1) |-> IF k < i THEN s[k] ELSE s[k + 1]]

\* a LockGuard is dropped: its permit goes back to the semaphore
DropGuard(t, i) ==
    /\ i \in DOMAIN guards[t]
    /\ sem' = [sem EXCEPT ![guards[t][i]] = @ + 1]
    /\ guards' = [guards EXCEPT ![t] = RemoveAt(@, i)]
    /\ UNCHANGED <<now, acq, lresult>>

PendingTimers == {acq[t].timer : t \in {x \in Tasks : acq[x].pc # "idle"}}

\* time passes up to the next timer, within the limit
AdvanceUpTo(limit) ==
    /\ PendingTimers # {}
    /\ \A d \in PendingTimers : d > now
    /\ now' = CHOOSE d \in PendingTimers : \A e \in PendingTimers : d <= e
    /\ now' <= limit
    /\ UNCHANGED <<sem, acq, guards, lresult>>

Advance == AdvanceUpTo(MaxTime)

\* time passes up to an instant before the next timer
AdvanceTo(instant) ==
    /\ now < instant
    /\ \A d \in PendingTimers : d > instant
    /\ now' = instant
    /\ UNCHANGED <<sem, acq, guards, lresult>>

(***************************************************************************)
(* ExecutionPlan::compute                                                  *)
(***************************************************************************)
\* format!("detect-{}", id), format!("install-{}", id), format!("verify-{}", id)
StepId(prefix, id) == <<prefix, id>>

\* a mutant of DetectStep: the id of the Install step
DetectStepInstallId(reg, id) ==
    [id |-> StepId("install", id), installer |-> id, action |-> "Detect",
     dependencies |-> <<>>, concurrency_safe |-> TRUE, required_locks |-> <<>>]

DetectStep(reg, id) ==
    [id |-> StepId("detect", id), installer |-> id, action |-> "Detect",
     dependencies |-> <<>>, concurrency_safe |-> TRUE, required_locks |-> <<>>]

\* a mutant of InstallStep: every Install step takes the lock
InstallStepLocked(reg, id) ==
    [id |-> StepId("install", id), installer |-> id, action |-> "Install",
     dependencies |-> [k \in DOMAIN reg[id].deps |-> StepId("install", reg[id].deps[k])],
     concurrency_safe |-> reg[id].concurrency_safe,
     required_locks |-> <<"package_manager_lock">>]

InstallStep(reg, id) ==
    [id |-> StepId("install", id), installer |-> id, action |-> "Install",
     dependencies |-> [k \in DOMAIN reg[id].deps |-> StepId("install", reg[id].deps[k])],
     concurrency_safe |-> reg[id].concurrency_safe,
     required_locks |-> IF reg[id].concurrency_safe
                        THEN <<>> ELSE <<"package_manager_lock">>]

\* a mutant of VerifyStep: the Verify step depends on the Detect step
VerifyStepOnDetect(reg, id) ==
    [id |-> StepId("verify", id), installer |-> id, action |-> "Verify",
     dependencies |-> <<StepId("detect", id)>>, concurrency_safe |-> TRUE,
     required_locks |-> <<>>]

VerifyStep(reg, id) ==
    [id |-> StepId("verify", id), installer |-> id, action |-> "Verify",
     dependencies |-> <<StepId("install", id)>>, concurrency_safe |-> TRUE,
     required_locks |-> <<>>]

compute(reg, tools) ==
    LET r == resolve_dependencies(reg, tools)
        installers == r.resolved
    IN  IF r.err.kind # "none"
        THEN [ok |-> FALSE, err |-> r.err, phases |-> <<>>, total_steps |-> 0]
        ELSE [ok |-> TRUE, err |-> NoErr,
              phases |-> <<
                [name |-> "Detection", can_parallelize |-> TRUE,
                 steps |-> [i \in DOMAIN installers |-> DetectStep(reg, installers[i])]],
                [name |-> "Installation", can_parallelize |-> FALSE,
                 steps |-> [i \in DOMAIN installers |-> InstallStep(reg, installers[i])]],
                [name |-> "Verification", can_parallelize |-> TRUE,
                 steps |-> [i \in DOMAIN installers |-> VerifyStep(reg, installers[i])]] >>,
              total_steps |-> Len(installers) + Len(installers) + Len(installers)]

(***************************************************************************)
(* Executor                                                                *)
(***************************************************************************)
\* <<phase, index>> of every step of a plan
KeysOf(pl) == {k \in (1..3) \X (1..Cardinality(Ids)) :
                 k[1] \in DOMAIN pl.phases /\ k[2] \in DOMAIN pl.phases[k[1]].steps}
StepKeys == DOMAIN task

Steps(p) == plan.phases[p].steps
StepOf(k) == Steps(k[1])[k[2]]

InstallFailed(tool, code) == [kind |-> "InstallFailed", id |-> tool, exit_code |-> code]
DetectionFailed(tool) == [kind |-> "DetectionFailed", id |-> tool, exit_code |-> 0]
VerificationFailed(tool) == [kind |-> "VerificationFailed", id |-> tool, exit_code |-> 0]
InstallerNotFound(tool) == [kind |-> "InstallerNotFound", id |-> tool, exit_code |-> 0]
\* the two ConfigErrors of acquire
UnknownLock(name) == [kind |-> "ConfigError: Unknown lock", id |-> name, exit_code |-> 0]
LockTimeout(name) == [kind |-> "ConfigError: Timeout waiting for lock", id |-> name, exit_code |-> 0]
\* the joined issues of an unsuccessful verification
Issues(tool) == [kind |-> "issues", id |-> tool, exit_code |-> 0]

StepResult(step, success, error, install_result, verify_result) ==
    [step_id |-> step.id, installer_id |-> step.installer, success |-> success,
     error |-> error, install_result |-> install_result,
     verify_result |-> verify_result]

\* what execute_step_impl returned: Ok(StepResult) or Err(BootstrapError);
\* <<>> while it has not returned
OkOut(r) == <<"ok", r>>
ErrOut(e) == <<"err", e>>
IsOk(o) == o # <<>> /\ o[1] = "ok"
IsErr(o) == o # <<>> /\ o[1] = "err"
\* the error of an Err, NoErr otherwise
ErrOf(o) == IF IsErr(o) THEN o[2] ELSE NoErr
\* notes: what the step told the progress reporter, in order
NoTask == [pc |-> "none", permit |-> FALSE, invoked |-> FALSE, out |-> <<>>,
           notes |-> <<>>]

\* what the capability operation of a step can return, as execute_step_impl
\* turns it into a StepResult or an error
Outcomes(step) ==
    CASE step.action = "Detect" ->
           {OkOut(StepResult(step, TRUE, NoErr, FALSE, "found")),
            OkOut(StepResult(step, TRUE, NoErr, FALSE, "absent")),
            ErrOut(DetectionFailed(step.installer))}
      [] step.action = "Install" ->
           {OkOut(StepResult(step, TRUE, NoErr, TRUE, "none"))}
           \cup {ErrOut(InstallFailed(step.installer, c)) : c \in 1..MaxExitCode}
      [] step.action = "Verify" ->
           {OkOut(StepResult(step, TRUE, NoErr, FALSE, "found")),
            OkOut(StepResult(step, FALSE, Issues(step.installer), FALSE, "failed")),
            ErrOut(VerificationFailed(step.installer))}

\* a mutant of Released: the dropped guards keep their permits
ReleasedNone(gs) == sem

\* the permits the dropped guards give back
Released(gs) ==
    [n \in DOMAIN sem |-> sem[n] + Cardinality({i \in DOMAIN gs : gs[i] = n})]

\* the reporter is told the outcome when the function reaches its end with a
\* StepResult: set_success or set_failed; a `?` returns before that
Notified(notes, out) ==
    IF IsOk(out)
    THEN Append(notes, IF out[2].success THEN "success" ELSE "failed")
    ELSE notes

\* execute_step_impl returns: its guards are dropped, then the job permit
Finish(k, out) ==
    /\ task' = [task EXCEPT ![k] = [pc |-> "finished", permit |-> FALSE,
                                    invoked |-> @.invoked, out |-> out,
                                    notes |-> Notified(@.notes, out)]]
    /\ sem' = Released(guards[k])
    /\ guards' = [guards EXCEPT ![k] = <<>>]
    /\ job_permits' = IF task[k].permit THEN job_permits + 1 ELSE job_permits

\* a mutant of PermitAvailable: the job semaphore is not consulted
PermitAlways == TRUE

\* semaphore.acquire() of the job semaphore can complete
PermitAvailable == job_permits > 0

\* handle.await completes once the spawned task has finished
HandleReady(k) == task[k].pc = "finished"

\* execute enters the next phase: a parallel phase spawns one task per step
PhaseStart ==
    /\ epc = "phase_begin"
    /\ phase_idx <= Len(plan.phases)
    /\ IF plan.phases[phase_idx].can_parallelize
       THEN /\ task' = [k \in StepKeys |->
                          IF k[1] = phase_idx
                          THEN [NoTask EXCEPT !.pc = "spawned"] ELSE task[k]]
            /\ epc' = "await"
       ELSE /\ epc' = "seq"
            /\ UNCHANGED task
    /\ next_idx' = 1
    /\ results' = <<>>
    /\ phase_events' = Append(phase_events, <<"PhaseStarted", plan.phases[phase_idx].name>>)
    /\ UNCHANGED ctx
    /\ UNCHANGED <<plan, max_jobs, job_permits, phase_idx, all_results, ret>>
    /\ UNCHANGED <<sem, guards>>

\* the spawned task gets its job permit
TaskPermit(k) ==
    /\ task[k].pc = "spawned"
    /\ PermitAvailable
    /\ job_permits' = job_permits - 1
    /\ task' = [task EXCEPT ![k].pc = "locking", ![k].permit = TRUE]
    /\ UNCHANGED <<ctx, phase_events, plan, max_jobs, epc, phase_idx, next_idx, results, all_results, ret>>
    /\ UNCHANGED <<sem, guards>>

\* the step acquires the next of its required locks
StepLock(k) ==
    /\ task[k].pc = "locking"
    /\ Len(guards[k]) < Len(StepOf(k).required_locks)
    /\ LET name == StepOf(k).required_locks[Len(guards[k]) + 1]
       IN  IF ~LocksGet(name) THEN Finish(k, ErrOut(UnknownLock(name)))
           ELSE IF sem[name] > 0
           THEN /\ sem' = [sem EXCEPT ![name] = @ - 1]
                /\ guards' = [guards EXCEPT ![k] = Append(@, name)]
                /\ UNCHANGED <<task, job_permits>>
           ELSE Finish(k, ErrOut(LockTimeout(name)))
    /\ UNCHANGED <<ctx, phase_events, plan, max_jobs, epc, phase_idx, next_idx, results, all_results, ret>>

\* the locks are held: look the installer up, tell the reporter that the step
\* is running, and invoke the operation
StepInvoke(k) ==
    /\ task[k].pc = "locking"
    /\ Len(guards[k]) = Len(StepOf(k).required_locks)
    /\ IF ~RegistryGet(registry, StepOf(k).installer)
       THEN Finish(k, ErrOut(InstallerNotFound(StepOf(k).installer)))
       ELSE /\ task' = [task EXCEPT ![k].pc = "running", ![k].invoked = TRUE,
                                     ![k].notes = Append(@, "running")]
            /\ UNCHANGED <<sem, guards, job_permits>>
    /\ UNCHANGED <<ctx, phase_events, plan, max_jobs, epc, phase_idx, next_idx, results, all_results, ret>>

\* the operation returns and execute_step_impl with it
StepReturn(k) ==
    /\ task[k].pc = "running"
    /\ \E o \in Outcomes(StepOf(k)) : Finish(k, o)
    /\ UNCHANGED <<ctx, phase_events, plan, max_jobs, epc, phase_idx, next_idx, results, all_results, ret>>

Returned(status, rs, e) == [status |-> status, results |-> rs, err |-> e]

\* a mutant of AwaitHandle: the handles are awaited in the order in which
\* their tasks finish
AwaitHandleAnyOrder ==
    /\ epc = "await"
    /\ next_idx <= Len(Steps(phase_idx))
    /\ \E i \in DOMAIN Steps(phase_idx) :
          /\ HandleReady(<<phase_idx, i>>)
          /\ LET o == task[<<phase_idx, i>>].out
             IN  IF IsOk(o)
                 THEN /\ o[2] \notin Range(results)
                      /\ results' = Append(results, o[2])
                      /\ next_idx' = next_idx + 1
                      /\ UNCHANGED <<epc, ret>>
                 ELSE /\ ret' = Returned("err", <<>>, o[2])
                      /\ epc' = "returned"
                      /\ UNCHANGED <<results, next_idx>>
    /\ UNCHANGED <<ctx, phase_events, plan, max_jobs, job_permits, phase_idx, all_results, task>>
    /\ UNCHANGED <<sem, guards>>

\* execute_parallel awaits the next handle: a result is pushed, an error returns
AwaitHandle ==
    /\ epc = "await"
    /\ next_idx <= Len(Steps(phase_idx))
    /\ HandleReady(<<phase_idx, next_idx>>)
    /\ LET o == task[<<phase_idx, next_idx>>].out
       IN  IF IsOk(o)
           THEN /\ results' = Append(results, o[2])
                /\ next_idx' = next_idx + 1
                /\ UNCHANGED <<epc, ret>>
           ELSE /\ ret' = Returned("err", <<>>, o[2])
                /\ epc' = "returned"
                /\ UNCHANGED <<results, next_idx>>
    /\ UNCHANGED <<ctx, phase_events, plan, max_jobs, job_permits, phase_idx, all_results, task>>
    /\ UNCHANGED <<sem, guards>>

\* execute_sequential starts the next step
SeqStart ==
    /\ epc = "seq"
    /\ next_idx <= Len(Steps(phase_idx))
    /\ task[<<phase_idx, next_idx>>].pc = "none"
    /\ task' = [task EXCEPT ![<<phase_idx, next_idx>>].pc = "locking"]
    /\ UNCHANGED <<ctx, phase_events, plan, max_jobs, job_permits, epc, phase_idx, next_idx, results,
                   all_results, ret>>
    /\ UNCHANGED <<sem, guards>>

\* a mutant of SeqCollect: a failed step is skipped and the loop goes on
SeqCollectKeepGoing ==
    /\ epc = "seq"
    /\ next_idx <= Len(Steps(phase_idx))
    /\ task[<<phase_idx, next_idx>>].pc = "finished"
    /\ LET o == task[<<phase_idx, next_idx>>].out
       IN  results' = IF IsOk(o) THEN Append(results, o[2]) ELSE results
    /\ next_idx' = next_idx + 1
    /\ UNCHANGED <<ctx, phase_events, plan, max_jobs, job_permits, epc, phase_idx, all_results, ret, task>>
    /\ UNCHANGED <<sem, guards>>

\* execute_sequential gets the step's outcome: a result is pushed, an error returns
SeqCollect ==
    /\ epc = "seq"
    /\ next_idx <= Len(Steps(phase_idx))
    /\ task[<<phase_idx, next_idx>>].pc = "finished"
    /\ LET o == task[<<phase_idx, next_idx>>].out
       IN  IF IsOk(o)
           THEN /\ results' = Append(results, o[2])
                /\ next_idx' = next_idx + 1
                /\ UNCHANGED <<epc, ret>>
           ELSE /\ ret' = Returned("err", <<>>, o[2])
                /\ epc' = "returned"
                /\ UNCHANGED <<results, next_idx>>
    /\ UNCHANGED <<ctx, phase_events, plan, max_jobs, job_permits, phase_idx, all_results, task>>
    /\ UNCHANGED <<sem, guards>>

\* a mutant of PhaseComplete: a parallel phase returns what it has without
\* awaiting the handles that are left
PhaseCompleteEarly ==
    /\ epc \in {"await", "seq"}
    /\ epc = "seq" => next_idx > Len(Steps(phase_idx))
    /\ all_results' = all_results \o results
    /\ phase_idx' = phase_idx + 1
    /\ epc' = "phase_begin"
    /\ phase_events' = Append(phase_events, <<"PhaseCompleted", plan.phases[phase_idx].name>>)
    /\ UNCHANGED ctx
    /\ UNCHANGED <<plan, max_jobs, job_permits, next_idx, results, ret, task>>
    /\ UNCHANGED <<sem, guards>>

\* the phase returned its results: execute extends all_results and goes on
PhaseComplete ==
    /\ epc \in {"await", "seq"}
    /\ next_idx > Len(Steps(phase_idx))
    /\ all_results' = all_results \o results
    /\ phase_idx' = phase_idx + 1
    /\ epc' = "phase_begin"
    /\ phase_events' = Append(phase_events, <<"PhaseCompleted", plan.phases[phase_idx].name>>)
    /\ UNCHANGED ctx
    /\ UNCHANGED <<plan, max_jobs, job_permits, next_idx, results, ret, task>>
    /\ UNCHANGED <<sem, guards>>

\* every phase is done: Ok(all_results)
ExecuteReturn ==
    /\ epc = "phase_begin"
    /\ phase_idx > Len(plan.phases)
    /\ ret' = Returned("ok", all_results, NoErr)
    /\ epc' = "returned"
    /\ UNCHANGED <<ctx, phase_events, plan, max_jobs, job_permits, phase_idx, next_idx, results,
                   all_results, task>>
    /\ UNCHANGED <<sem, guards>>

(***************************************************************************)
(* retry_with_backoff; times in tenths of a second                         *)
(***************************************************************************)
\* RetryPolicy::network_default
network_default ==
    [max_attempts |-> 3, initial_delay |-> 10, max_delay |-> 300,
     max_total_time |-> 600, jitter |-> TRUE]
\* RetryPolicy::package_manager_default
package_manager_default ==
    [max_attempts |-> 2, initial_delay |-> 20, max_delay |-> 100,
     max_total_time |-> 300, jitter |-> FALSE]
\* the policies retry_with_backoff is called with
Policies ==
    {network_default, package_manager_default}
    \cup [max_attempts : 0..MaxAttempts, initial_delay : {10, 30},
          max_delay : {20, 40}, max_total_time : {0, 40, 600}, jitter : BOOLEAN]

\* the errors of the operation: BootstrapErrors, io::Errors by kind, and an
\* error of another type
OpErrors == {"HttpError", "io::TimedOut", "io::NotFound", "ChecksumMismatch",
             "ConfigError", "InstallFailed", "other"}
\* how long one call of the operation takes
OpDurations == {0, 15, 590}

classify_error(e) ==
    CASE e = "ChecksumMismatch" -> "Security"
      [] e = "HttpError" -> "Transient"
      [] e \in {"ConfigError", "NotInRepo", "NoPackageManager"} -> "Permanent"
      [] e \in {"io::TimedOut", "io::ConnectionReset", "io::ConnectionAborted",
                "io::ConnectionRefused"} -> "Transient"
      [] e \in {"io::NotFound", "io::PermissionDenied", "io::InvalidInput"} -> "Permanent"
      [] OTHER -> "Permanent"

\* a mutant of ShouldRetry: the class of the error is not looked at
ShouldRetryAlways(class) == TRUE

\* the match on the RetryClass: only Transient goes on to the retry
ShouldRetry(class) == class = "Transient"

\* 1.0 + gen::<f64>() * 0.3, in tenths above 1.0
JitterTenths == {0, 1, 2}
\* actual_delay
ActualDelays(policy, d) ==
    IF policy.jitter THEN {(d * (10 + j)) \div 10 : j \in JitterTenths} ELSE {d}

\* a mutant of NextDelay: the delay is not doubled
NextDelayFlat(d, max_delay) == Min(d, max_delay)

\* (delay * 2).min(policy.max_delay)
NextDelay(d, max_delay) == Min(d * 2, max_delay)

RetryReturned(status, e, t) == [status |-> status, err |-> e, elapsed |-> t]

RetryIdle ==
    /\ rpolicy = network_default
    /\ attempts = 0
    /\ delay = 0
    /\ elapsed = 0
    /\ rstart = 0
    /\ outcomes = <<>>
    /\ slept = <<>>
    /\ rtpc = "done"
    /\ rret = RetryReturned("none", "", 0)

\* one turn of the loop: the operation is called and its outcome matched, up
\* to the return or the start of the sleep
RetryAttempt ==
    /\ rtpc = "loop"
    /\ attempts' = attempts + 1
    /\ rstart' = elapsed
    /\ \E out \in {"ok"} \cup OpErrors, dur \in OpDurations :
          /\ outcomes' = Append(outcomes, out)
          /\ elapsed' = elapsed + dur
          /\ IF out = "ok"
             THEN /\ rret' = RetryReturned("ok", "", 0)
                  /\ rtpc' = "done"
                  /\ UNCHANGED slept
             ELSE IF attempts' >= rpolicy.max_attempts
             THEN /\ rret' = RetryReturned("err", out, 0)
                  /\ rtpc' = "done"
                  /\ UNCHANGED slept
             ELSE IF ~ShouldRetry(classify_error(out))
             THEN /\ rret' = RetryReturned("err", out, 0)
                  /\ rtpc' = "done"
                  /\ UNCHANGED slept
             ELSE IF elapsed' >= rpolicy.max_total_time
             THEN /\ rret' = RetryReturned("Retry timeout exceeded", out, elapsed')
                  /\ rtpc' = "done"
                  /\ UNCHANGED slept
             ELSE /\ \E a \in ActualDelays(rpolicy, delay) :
                        slept' = Append(slept, <<delay, a>>)
                  /\ rtpc' = "sleep"
                  /\ UNCHANGED rret
    /\ UNCHANGED <<rpolicy, delay>>

\* the sleep is over: the delay is doubled up to the cap
RetrySleepDone ==
    /\ rtpc = "sleep"
    /\ elapsed' = elapsed + slept[Len(slept)][2]
    /\ delay' = NextDelay(delay, rpolicy.max_delay)
    /\ rtpc' = "loop"
    /\ UNCHANGED <<rpolicy, attempts, rstart, outcomes, slept, rret>>


(***************************************************************************)
(* ExecutionPlan::compute_hash                                             *)
(***************************************************************************)
\* what is written to the hasher, one item per write: a usize, or the bytes
\* of a str followed by 0xff
WriteUsize(h, n) == Append(h, <<"usize", ToString(n)>>)
WriteStr(h, str) == Append(Append(h, <<"str">> \o str), <<"0xff">>)

RECURSIVE HashSteps(_, _, _)
HashSteps(h, steps, i) ==
    IF i > Len(steps) THEN h ELSE HashSteps(WriteStr(h, steps[i].id), steps, i + 1)

RECURSIVE HashPhases(_, _, _)
HashPhases(h, phases, i) ==
    IF i > Len(phases) THEN h
    ELSE HashPhases(HashSteps(WriteStr(h, <<phases[i].name>>), phases[i].steps, 1),
                    phases, i + 1)

\* format!("{:x}", hasher.finish()): SipHash with the fixed keys of
\* DefaultHasher::new(), a function of the bytes written and of nothing
\* else; two different inputs are taken not to collide
HasherFinish(h) == <<"siphash">> \o h

\* a mutant of compute_hash: the step count and the step ids are left out
compute_hash_phases_only(pl) ==
    HasherFinish(HashPhases(<<>>, [i \in DOMAIN pl.phases |->
                                     [pl.phases[i] EXCEPT !.steps = <<>>]], 1))

compute_hash(pl) ==
    HasherFinish(HashPhases(WriteUsize(<<>>, pl.total_steps), pl.phases, 1))

(***************************************************************************)
(* Checkpoint                                                              *)
(***************************************************************************)
\* Utc::now() of Checkpoint::new
Stamps == {1}

Checkpoint(ts, hash, completed, failed) ==
    [timestamp |-> ts, plan_hash |-> hash, completed_steps |-> completed,
     failed_steps |-> failed]

\* Checkpoint::new
CheckpointNew(pl, ts) == Checkpoint(ts, compute_hash(pl), <<>>, <<>>)

\* Checkpoint::is_valid
is_valid(c, current_plan) == c.plan_hash = compute_hash(current_plan)

\* Vec::contains
Contains(v, x) == \E i \in DOMAIN v : v[i] = x

\* Checkpoint::mark_completed, Checkpoint::mark_failed
mark_completed(c, step_id) ==
    IF ~Contains(c.completed_steps, step_id)
    THEN [c EXCEPT !.completed_steps = Append(@, step_id)] ELSE c
mark_failed(c, step_id) ==
    IF ~Contains(c.failed_steps, step_id)
    THEN [c EXCEPT !.failed_steps = Append(@, step_id)] ELSE c

\* Checkpoint::is_completed
is_completed(c, step_id) == Contains(c.completed_steps, step_id)

\* a mutant of to_string_pretty: the two lists of step ids are written under
\* each other's key
to_string_swapped(c) ==
    << <<"timestamp", c.timestamp>>, <<"plan_hash", c.plan_hash>>,
       <<"completed_steps", c.failed_steps>>, <<"failed_steps", c.completed_steps>> >>

\* serde_json::to_string_pretty: the JSON object, one member per field
to_string_pretty(c) ==
    << <<"timestamp", c.timestamp>>, <<"plan_hash", c.plan_hash>>,
       <<"completed_steps", c.completed_steps>>, <<"failed_steps", c.failed_steps>> >>

\* serde_json::from_str: every field is looked up by its key
HasMember(json, key) == \E i \in DOMAIN json : json[i][1] = key
Member(json, key) == json[CHOOSE i \in DOMAIN json : json[i][1] = key][2]
ParseOk(json) ==
    \A key \in {"timestamp", "plan_hash", "completed_steps", "failed_steps"} :
        HasMember(json, key)
from_str(json) ==
    Checkpoint(Member(json, "timestamp"), Member(json, "plan_hash"),
               Member(json, "completed_steps"), Member(json, "failed_steps"))

\* the working trees: two of them have the same directory name
Trees == {<<"a", "proj">>, <<"b", "proj">>, <<"b", "other">>}
\* what dirs::cache_dir() gives
CacheDirs == {"/home/u/.cache", "none"}
\* repo_root.file_name()
FileName(repo_root) == repo_root[Len(repo_root)]
\* default_checkpoint_path, when there is a cache directory
default_checkpoint_path(cache, repo_root) ==
    <<cache, "bootstrap-repo-lint", "checkpoints", FileName(repo_root), ".json">>
CheckpointPaths == {default_checkpoint_path(c, t) : c \in CacheDirs \ {"none"}, t \in Trees}

\* the plans checkpoints are made for and checked against
CheckpointRegistry == [i \in Ids |-> [deps |-> <<>>, concurrency_safe |-> FALSE]]
CheckpointPlans == {compute(CheckpointRegistry, <<"A">>), compute(CheckpointRegistry, <<"B">>)}
\* the step ids that are marked completed, and failed
CompletedIds == {StepId("detect", "A"), StepId("install", "A")}
FailedIds == {StepId("install", "A")}

NoFile == [exists |-> FALSE, text |-> <<>>]
File(text) == [exists |-> TRUE, text |-> text]
\* texts that are not a Checkpoint: an empty file, a truncated object, and
\* an object of another kind
MalformedTexts ==
    { <<>>,
      << <<"timestamp", 1>>, <<"plan_hash", <<>>>> >>,
      << <<"garbage", 0>> >> }
NoCheckpoint == Checkpoint(0, <<>>, <<>>, <<>>)
None == [some |-> FALSE, v |-> NoCheckpoint]
Some(c) == [some |-> TRUE, v |-> c]
NoSave == [tree |-> <<>>, status |-> "none", v |-> NoCheckpoint]
NoLoad == [tree |-> <<>>, status |-> "none", v |-> NoCheckpoint]

HashIdle ==
    /\ hin = [reg1 |-> CheckpointRegistry, tools1 |-> <<>>,
              reg2 |-> CheckpointRegistry, tools2 |-> <<>>]
    /\ hout = [done |-> TRUE, plan1 |-> compute(CheckpointRegistry, <<>>),
               plan2 |-> compute(CheckpointRegistry, <<>>),
               hash1 |-> <<>>, hash2 |-> <<>>, valid |-> TRUE]

CkptIdle ==
    /\ cache_dir = "none"
    /\ files = [f \in CheckpointPaths |-> NoFile]
    /\ cp = None
    /\ saved = NoSave
    /\ loaded = NoLoad

(***************************************************************************)
(* BootstrapError::exit_code; a tool name is its sequence of characters    *)
(***************************************************************************)
ExitCode_Success == 0
ExitCode_UsageError == 1
ExitCode_NotInRepo == 10
ExitCode_VenvActivationFailed == 11
ExitCode_NoInstallTarget == 12
ExitCode_RepoLintUpgradeFailed == 13
ExitCode_RepoLintInstallFailed == 14
ExitCode_PythonToolsFailed == 15
ExitCode_ShellToolchainFailed == 16
ExitCode_PowerShellToolchainFailed == 17
ExitCode_PerlToolchainFailed == 18
ExitCode_VerificationFailed == 19
ExitCode_ActionlintFailed == 20
ExitCode_RipgrepFailed == 21

\* str::starts_with
starts_with(t, prefix) ==
    Len(t) >= Len(prefix) /\ SubSeq(t, 1, Len(prefix)) = prefix

\* the names and parts of names the mapping and its inputs are written with
Chars ==
    [python |-> <<"p", "y", "t", "h", "o", "n">>,
     black |-> <<"b", "l", "a", "c", "k">>,
     ruff |-> <<"r", "u", "f", "f">>,
     pylint |-> <<"p", "y", "l", "i", "n", "t">>,
     shell |-> <<"s", "h", "e", "l", "l">>,
     shfmt |-> <<"s", "h", "f", "m", "t">>,
     pwsh |-> <<"p", "w", "s", "h">>,
     PowerShell |-> <<"P", "o", "w", "e", "r", "S", "h", "e", "l", "l">>,
     perl |-> <<"p", "e", "r", "l">>,
     actionlint |-> <<"a", "c", "t", "i", "o", "n", "l", "i", "n", "t">>,
     ripgrep |-> <<"r", "i", "p", "g", "r", "e", "p">>,
     rg |-> <<"r", "g">>,
     repo_lint |-> <<"r", "e", "p", "o", "-", "l", "i", "n", "t">>,
     ppi |-> <<"p", "p", "i">>,
     powershell |-> <<"p", "o", "w", "e", "r", "s", "h", "e", "l", "l">>,
     check |-> <<"c", "h", "e", "c", "k">>,
     critic |-> <<"c", "r", "i", "t", "i", "c">>,
     three |-> <<"3">>]

\* the tool names of the failures: the names the installers report and names
\* next to them
ToolNames ==
    {st \o su :
        st \in {Chars.python, Chars.black, Chars.ruff, Chars.pylint, Chars.shell,
                Chars.shfmt, Chars.pwsh, Chars.PowerShell, Chars.perl,
                Chars.actionlint, Chars.ripgrep, Chars.rg, Chars.repo_lint, Chars.ppi,
                Chars.powershell},
        su \in {<<>>, Chars.check, Chars.critic, Chars.three}}

\* the variants of BootstrapError
BootstrapErrors ==
    {[kind |-> k, tool |-> <<>>] :
        k \in {"NotInRepo", "VenvActivation", "NoInstallTarget", "RepoLintUpgradeFailed",
             "RepoLintInstallFailed", "PythonToolsFailed", "VerificationFailed", "ConfigError",
             "IoError", "CommandFailed", "ToolNotFound", "DetectionFailed", "NoPackageManager",
             "DependencyResolution", "CyclicDependency", "HttpError", "ChecksumMismatch", "Other"}}
    \cup {[kind |-> "InstallFailed", tool |-> t] : t \in ToolNames}

\* a mutant of install_exit_code: every install failure is a verification
\* failure
install_exit_code_generic(tool) == ExitCode_VerificationFailed

\* the arm of InstallFailed { tool, .. }
install_exit_code(tool) ==
    IF tool = Chars.actionlint THEN ExitCode_ActionlintFailed
    ELSE IF tool = Chars.ripgrep \/ tool = Chars.rg THEN ExitCode_RipgrepFailed
    ELSE IF \/ starts_with(tool, Chars.python) \/ starts_with(tool, Chars.black)
            \/ starts_with(tool, Chars.ruff) \/ starts_with(tool, Chars.pylint)
         THEN ExitCode_PythonToolsFailed
    ELSE IF starts_with(tool, Chars.shell) \/ tool = Chars.shfmt THEN ExitCode_ShellToolchainFailed
    ELSE IF starts_with(tool, Chars.pwsh) \/ starts_with(tool, Chars.PowerShell)
         THEN ExitCode_PowerShellToolchainFailed
    ELSE IF starts_with(tool, Chars.perl) \/ tool = Chars.perl \o Chars.critic
         THEN ExitCode_PerlToolchainFailed
    ELSE ExitCode_VerificationFailed

\* BootstrapError::exit_code
exit_code(e) ==
    CASE e.kind = "NotInRepo" -> ExitCode_NotInRepo
      [] e.kind = "VenvActivation" -> ExitCode_VenvActivationFailed
      [] e.kind = "NoInstallTarget" -> ExitCode_NoInstallTarget
      [] e.kind = "RepoLintUpgradeFailed" -> ExitCode_RepoLintUpgradeFailed
      [] e.kind = "RepoLintInstallFailed" -> ExitCode_RepoLintInstallFailed
      [] e.kind = "PythonToolsFailed" -> ExitCode_PythonToolsFailed
      [] e.kind = "VerificationFailed" -> ExitCode_VerificationFailed
      [] e.kind = "InstallFailed" -> install_exit_code(e.tool)
      [] e.kind = "ConfigError" -> ExitCode_UsageError
      [] e.kind = "CommandFailed" -> ExitCode_VerificationFailed
      [] e.kind = "ToolNotFound" -> ExitCode_VerificationFailed
      [] e.kind = "DetectionFailed" -> ExitCode_VerificationFailed
      [] e.kind = "NoPackageManager" -> ExitCode_UsageError
      [] e.kind \in {"DependencyResolution", "CyclicDependency"} -> ExitCode_UsageError
      [] e.kind \in {"HttpError", "ChecksumMismatch"} -> ExitCode_VerificationFailed
      [] e.kind \in {"IoError", "Other"} -> ExitCode_VerificationFailed

ExitIdle ==
    /\ berr = [kind |-> "NotInRepo", tool |-> <<>>]
    /\ bcode = exit_code(berr)

\* e.exit_code()
ExitCodeCall ==
    /\ bcode = -1
    /\ bcode' = exit_code(berr)
    /\ UNCHANGED berr

(***************************************************************************)
(* safe-run: the event ledger                                              *)
(***************************************************************************)
\* the capture threads of execute
Streams == {"STDOUT", "STDERR"}
\* a capture thread: the lines its reader still yields, and the sequence
\* number emit_event holds between its fetch_add and its push
NoCapture == [pc |-> "idle", left |-> 0, seq |-> 0]

SafeRunIdle ==
    /\ seq_counter = 0
    /\ events = <<>>
    /\ capture = [t \in Streams |-> NoCapture]
    /\ srpc = "idle"

\* emit_event called while no other thread runs: fetch_add, format, push
emit_event(stream) ==
    /\ seq_counter' = seq_counter + 1
    /\ events' = Append(events, [seq |-> seq_counter + 1, stream |-> stream])

\* execute emits the start event, spawns the command and the capture threads
SafeRunStart ==
    /\ srpc = "start"
    /\ emit_event("META")
    /\ capture' = [t \in Streams |-> [capture[t] EXCEPT !.pc = "read"]]
    /\ srpc' = "wait"

\* a capture thread read a line and is in emit_event:
\* seq_counter.fetch_add(1, SeqCst) + 1
FetchAdd(t) ==
    /\ capture[t].pc = "read"
    /\ capture[t].left > 0
    /\ seq_counter' = seq_counter + 1
    /\ capture' = [capture EXCEPT ![t].pc = "fetched", ![t].seq = seq_counter + 1,
                                   ![t].left = @ - 1]
    /\ UNCHANGED <<events, srpc>>

\* events.lock() and events_vec.push(event)
EventsPush(t) ==
    /\ capture[t].pc = "fetched"
    /\ events' = Append(events, [seq |-> capture[t].seq, stream |-> t])
    /\ capture' = [capture EXCEPT ![t].pc = "read"]
    /\ UNCHANGED <<seq_counter, srpc>>

\* the reader is at the end of the stream: the thread ends
CaptureEnd(t) ==
    /\ capture[t].pc = "read"
    /\ capture[t].left = 0
    /\ capture' = [capture EXCEPT ![t].pc = "done"]
    /\ UNCHANGED <<seq_counter, events, srpc>>

\* both threads are joined: execute emits the exit (or interrupted) event
SafeRunExit ==
    /\ srpc = "wait"
    /\ \A t \in Streams : capture[t].pc = "done"
    /\ emit_event("META")
    /\ srpc' = "exited"
    /\ UNCHANGED capture

AuxIdle == RetryIdle /\ HashIdle /\ CkptIdle /\ ExitIdle /\ SafeRunIdle

\* the two plans are computed and hashed, and a checkpoint of the first is
\* checked against the second
HashPlans ==
    /\ ~hout.done
    /\ LET plan1 == compute(hin.reg1, hin.tools1)
           plan2 == compute(hin.reg2, hin.tools2)
       IN  hout' = [done |-> TRUE, plan1 |-> plan1, plan2 |-> plan2,
                    hash1 |-> compute_hash(plan1), hash2 |-> compute_hash(plan2),
                    valid |-> is_valid(CheckpointNew(plan1, 1), plan2)]
    /\ UNCHANGED hin

\* Checkpoint::new
CkptNew(pl, ts) ==
    /\ cp' = Some(CheckpointNew(pl, ts))
    /\ UNCHANGED <<cache_dir, files, saved, loaded>>

\* mark_completed on the checkpoint in memory
CkptMarkCompleted(step_id) ==
    /\ cp.some
    /\ cp' = Some(mark_completed(cp.v, step_id))
    /\ UNCHANGED <<cache_dir, files, saved, loaded>>

\* mark_failed on the checkpoint in memory
CkptMarkFailed(step_id) ==
    /\ cp.some
    /\ cp' = Some(mark_failed(cp.v, step_id))
    /\ UNCHANGED <<cache_dir, files, saved, loaded>>

\* Checkpoint::save
CkptSave(repo_root) ==
    /\ cp.some
    /\ IF cache_dir = "none"
       THEN /\ saved' = [tree |-> repo_root, status |-> "ConfigError", v |-> cp.v]
            /\ UNCHANGED files
       ELSE /\ files' = [files EXCEPT ![default_checkpoint_path(cache_dir, repo_root)] =
                            File(to_string_pretty(cp.v))]
            /\ saved' = [tree |-> repo_root, status |-> "ok", v |-> cp.v]
    /\ loaded' = NoLoad
    /\ UNCHANGED <<cache_dir, cp>>

\* a mutant of CkptLoad: a file that does not parse is taken for no
\* checkpoint
CkptLoadLenient(repo_root) ==
    /\ IF cache_dir = "none"
       THEN loaded' = [tree |-> repo_root, status |-> "ConfigError", v |-> NoCheckpoint]
       ELSE LET file == files[default_checkpoint_path(cache_dir, repo_root)]
            IN  IF ~file.exists \/ ~ParseOk(file.text)
                THEN loaded' = [tree |-> repo_root, status |-> "None", v |-> NoCheckpoint]
                ELSE loaded' = [tree |-> repo_root, status |-> "Some", v |-> from_str(file.text)]
    /\ UNCHANGED <<cache_dir, files, cp, saved>>

\* Checkpoint::load
CkptLoad(repo_root) ==
    /\ IF cache_dir = "none"
       THEN loaded' = [tree |-> repo_root, status |-> "ConfigError", v |-> NoCheckpoint]
       ELSE LET file == files[default_checkpoint_path(cache_dir, repo_root)]
            IN  IF ~file.exists
                THEN loaded' = [tree |-> repo_root, status |-> "None", v |-> NoCheckpoint]
                ELSE IF ~ParseOk(file.text)
                THEN loaded' = [tree |-> repo_root, status |-> "ConfigError", v |-> NoCheckpoint]
                ELSE loaded' = [tree |-> repo_root, status |-> "Some", v |-> from_str(file.text)]
    /\ UNCHANGED <<cache_dir, files, cp, saved>>

\* the file is written or removed from outside the program
CkptTamper(path, file) ==
    /\ files[path] # file
    /\ files' = [files EXCEPT ![path] = file]
    /\ saved' = NoSave
    /\ loaded' = NoLoad
    /\ UNCHANGED <<cache_dir, cp>>

(***************************************************************************)
(* Specifications                                                          *)
(***************************************************************************)
ResolverIdle ==
    /\ registry = [i \in Ids |-> [deps |-> <<>>, concurrency_safe |-> FALSE]]
    /\ required_tools = <<>>
    /\ rpc = "input"
    /\ resolve_out = [resolved |-> <<>>, visited |-> {}, err |-> NoErr]

\* the jobs argument of Context::with_config: None, or Some(n) from --jobs or
\* BOOTSTRAP_JOBS
JobsNone == [some |-> FALSE, v |-> 0]
JobsSome(n) == [some |-> TRUE, v |-> n]

\* a Context made with the budget given by the user
JobsGiven(n) == [ci_mode |-> FALSE, jobs |-> JobsSome(n), num_cpus |-> 1]

\* Context::default_jobs, with what num_cpus::get() returned
default_jobs(ci_mode, num_cpus) == IF ci_mode THEN 2 ELSE Min(4, num_cpus)

\* the jobs field Context::with_config computes
with_config(ci_mode, jobs, num_cpus) ==
    IF jobs.some THEN jobs.v ELSE default_jobs(ci_mode, num_cpus)

ExecIdle ==
    /\ plan = compute([i \in Ids |-> [deps |-> <<>>, concurrency_safe |-> FALSE]], <<>>)
    /\ max_jobs = 1
    /\ job_permits = 1
    /\ epc = "returned"
    /\ phase_idx = 1
    /\ next_idx = 1
    /\ results = <<>>
    /\ all_results = <<>>
    /\ ret = Returned("none", <<>>, NoErr)
    /\ task = [k \in KeysOf(plan) |-> NoTask]
    /\ phase_events = <<>>
    /\ ctx = JobsGiven(max_jobs)

\* the lock manager with tasks that acquire, try_acquire and drop
InitLock == LocksIdle /\ ResolverIdle /\ ExecIdle /\ AuxIdle

NextLock ==
    \/ \E t \in Tasks, name \in AskedNames, w \in AskedWaits, ci \in BOOLEAN :
           AcquireCall(t, name, w, ci) /\ UNCHANGED <<resolver_vars, exec_vars, aux_vars>>
    \/ \E t \in Tasks : AttemptAcquired(t) /\ UNCHANGED <<resolver_vars, exec_vars, aux_vars>>
    \/ \E t \in Tasks : AttemptTimedOut(t) /\ UNCHANGED <<resolver_vars, exec_vars, aux_vars>>
    \/ \E t \in Tasks : SleepDone(t) /\ UNCHANGED <<resolver_vars, exec_vars, aux_vars>>
    \/ \E t \in Tasks, name \in AskedNames :
           TryAcquire(t, name) /\ UNCHANGED <<resolver_vars, exec_vars, aux_vars>>
    \/ \E t \in Tasks, i \in 1..Cardinality(Tasks) :
           DropGuard(t, i) /\ UNCHANGED <<resolver_vars, exec_vars, aux_vars>>
    \/ Advance /\ UNCHANGED <<resolver_vars, exec_vars, aux_vars>>

SpecLock == InitLock /\ [][NextLock]_vars

\* task t1 acquires a lock that task t2 holds and drops at any time, long
\* enough for the per-attempt timeout to reach its cap
MaxWaitTime == 12500

InitBackoff ==
    /\ ResolverIdle
    /\ ExecIdle
    /\ AuxIdle
    /\ now = 0
    /\ sem = [LockManagerNew EXCEPT ![BREW_LOCK] = @ - 1]
    /\ acq = [t \in Tasks |-> NoCall]
    /\ guards = [t \in Tasks |-> IF t = "t2" THEN <<BREW_LOCK>> ELSE <<>>]
    /\ lresult = [t \in Tasks |-> LockResult(IF t = "t2" THEN "ok" ELSE "none", 0)]

NextBackoff ==
    \/ \E w \in {100, 300, 5000}, ci \in BOOLEAN :
           /\ lresult["t1"].status = "none" /\ guards["t1"] = <<>>
           /\ AcquireCall("t1", BREW_LOCK, w, ci)
           /\ acq'["t1"].pc # "idle"
           /\ UNCHANGED <<resolver_vars, exec_vars, aux_vars>>
    \/ AttemptAcquired("t1") /\ UNCHANGED <<resolver_vars, exec_vars, aux_vars>>
    \/ AttemptTimedOut("t1") /\ UNCHANGED <<resolver_vars, exec_vars, aux_vars>>
    \/ SleepDone("t1") /\ UNCHANGED <<resolver_vars, exec_vars, aux_vars>>
    \/ DropGuard("t2", 1) /\ UNCHANGED <<resolver_vars, exec_vars, aux_vars>>
    \/ AdvanceUpTo(MaxWaitTime) /\ UNCHANGED <<resolver_vars, exec_vars, aux_vars>>
    \/ \E i \in {50, 350, 4700} : AdvanceTo(i) /\ UNCHANGED <<resolver_vars, exec_vars, aux_vars>>

SpecBackoff == InitBackoff /\ [][NextBackoff]_vars

\* the resolver applied to every registry and request within the bounds
InitResolve ==
    /\ LocksIdle
    /\ AuxIdle
    /\ ExecIdle
    /\ registry \in {r \in Registries : \A i \in Ids : ~r[i].concurrency_safe}
    /\ required_tools \in SeqUpTo(AllIds, MaxReq)
    /\ rpc = "input"
    /\ resolve_out = [resolved |-> <<>>, visited |-> {}, err |-> NoErr]

Resolve ==
    /\ rpc = "input"
    /\ resolve_out' = resolve_dependencies(registry, required_tools)
    /\ rpc' = "done"
    /\ UNCHANGED <<registry, required_tools>>
    /\ UNCHANGED <<lock_vars, exec_vars, aux_vars>>

NextResolve == Resolve

SpecResolve == InitResolve /\ [][NextResolve]_vars

\* the registries the executor is run on: every dependency registered and no
\* cycle, so that compute returns a plan; up to renaming of the ids, an id
\* depends on earlier ids only; the installers are all concurrency-safe or
\* none is
ExecDeps ==
    [A : {<<>>}, B : {<<>>, <<"A">>}, C : {<<>>, <<"A">>, <<"B">>, <<"A", "B">>}]
ExecRegistries ==
    {[i \in Ids |-> [deps |-> d[i], concurrency_safe |-> c]] :
        d \in ExecDeps, c \in BOOLEAN}
\* the profiles: tool lists that name no tool twice
ExecProfiles == {p \in SeqUpTo(Ids, MaxTools) : \A i, j \in DOMAIN p : p[i] = p[j] => i = j}

\* compute, Executor::new, and execute entered
InitExec ==
    /\ AuxIdle
    /\ registry \in ExecRegistries
    /\ required_tools \in ExecProfiles
    /\ rpc = "done"
    /\ resolve_out = resolve_dependencies(registry, required_tools)
    /\ plan = compute(registry, required_tools)
    /\ max_jobs \in 1..MaxJobs
    /\ job_permits = max_jobs
    /\ now = 0
    /\ sem = LockManagerNew
    /\ acq = [t \in Tasks |-> NoCall]
    /\ lresult = [t \in Tasks |-> LockResult("none", 0)]
    /\ guards = [k \in KeysOf(plan) |-> <<>>]
    /\ epc = "phase_begin"
    /\ phase_idx = 1
    /\ next_idx = 1
    /\ results = <<>>
    /\ all_results = <<>>
    /\ ret = Returned("none", <<>>, NoErr)
    /\ task = [k \in KeysOf(plan) |-> NoTask]
    /\ phase_events = <<>>
    /\ ctx = JobsGiven(max_jobs)

ExecUnchanged == UNCHANGED <<resolver_vars, now, acq, lresult, aux_vars>>

NextExec ==
    \/ PhaseStart /\ ExecUnchanged
    \/ \E k \in StepKeys : TaskPermit(k) /\ ExecUnchanged
    \/ \E k \in StepKeys : StepLock(k) /\ ExecUnchanged
    \/ \E k \in StepKeys : StepInvoke(k) /\ ExecUnchanged
    \/ \E k \in StepKeys : StepReturn(k) /\ ExecUnchanged
    \/ AwaitHandle /\ ExecUnchanged
    \/ SeqStart /\ ExecUnchanged
    \/ SeqCollect /\ ExecUnchanged
    \/ PhaseComplete /\ ExecUnchanged
    \/ ExecuteReturn /\ ExecUnchanged

Spec == InitExec /\ [][NextExec]_vars

\* execute on a plan the caller built itself (the fields of ExecutionPlan,
\* Phase and Step are public): one phase of two steps that require any locks
StepLockNames == {BREW_LOCK, APT_LOCK, "unknown_lock"}
CallerStep(installer, action, locks) ==
    [id |-> StepId("step", installer), installer |-> installer, action |-> action,
     dependencies |-> <<>>, concurrency_safe |-> FALSE, required_locks |-> locks]
CallerPlans ==
    {[ok |-> TRUE, err |-> NoErr,
      phases |-> << [name |-> "Custom", can_parallelize |-> par,
                     steps |-> << CallerStep(inst, act, l1),
                                  CallerStep("B", "Install", l2) >>] >>,
      total_steps |-> 2] :
        par \in BOOLEAN, inst \in {"A", UnknownId}, act \in {"Install", "Verify"},
        l1 \in SeqUpTo(StepLockNames, MaxLocks),
        l2 \in SeqUpTo(StepLockNames, MaxLocks)}

InitStep ==
    /\ ResolverIdle
    /\ AuxIdle
    /\ plan \in CallerPlans
    /\ max_jobs = MaxJobs
    /\ job_permits = max_jobs
    /\ now = 0
    /\ sem = LockManagerNew
    /\ acq = [t \in Tasks |-> NoCall]
    /\ lresult = [t \in Tasks |-> LockResult("none", 0)]
    /\ guards = [k \in KeysOf(plan) |-> <<>>]
    /\ epc = "phase_begin"
    /\ phase_idx = 1
    /\ next_idx = 1
    /\ results = <<>>
    /\ all_results = <<>>
    /\ ret = Returned("none", <<>>, NoErr)
    /\ task = [k \in KeysOf(plan) |-> NoTask]
    /\ phase_events = <<>>
    /\ ctx = JobsGiven(max_jobs)

SpecStep == InitStep /\ [][NextExec]_vars

\* retry_with_backoff called with every policy, on an operation that fails
\* or succeeds in any way
InitRetry ==
    /\ LocksIdle
    /\ ResolverIdle
    /\ ExecIdle
    /\ rpolicy \in Policies
    /\ attempts = 0
    /\ delay = rpolicy.initial_delay
    /\ elapsed = 0
    /\ rstart = 0
    /\ outcomes = <<>>
    /\ slept = <<>>
    /\ rtpc = "loop"
    /\ rret = RetryReturned("none", "", 0)
    /\ HashIdle
    /\ CkptIdle
    /\ ExitIdle
    /\ SafeRunIdle

NextRetry ==
    \/ RetryAttempt /\ UNCHANGED <<resolver_vars, lock_vars, exec_vars, saferun_vars,
            hash_vars, ckpt_vars, exit_vars>>
    \/ RetrySleepDone /\ UNCHANGED <<resolver_vars, lock_vars, exec_vars, saferun_vars,
            hash_vars, ckpt_vars, exit_vars>>

SpecRetry == InitRetry /\ [][NextRetry]_vars

\* exit_code applied to every error within the bounds
InitExit ==
    /\ LocksIdle
    /\ ResolverIdle
    /\ ExecIdle
    /\ RetryIdle
    /\ HashIdle
    /\ CkptIdle
    /\ SafeRunIdle
    /\ berr \in BootstrapErrors
    /\ bcode = -1

NextExit ==
    ExitCodeCall /\ UNCHANGED <<resolver_vars, lock_vars, exec_vars, retry_vars, hash_vars,
                                ckpt_vars, saferun_vars>>

SpecExit == InitExit /\ [][NextExit]_vars

\* safe-run on a command that writes up to MaxLines lines to each stream
MaxLines == 3
InitSafeRun ==
    /\ LocksIdle
    /\ ResolverIdle
    /\ ExecIdle
    /\ RetryIdle
    /\ HashIdle
    /\ CkptIdle
    /\ ExitIdle
    /\ seq_counter = 0
    /\ events = <<>>
    /\ capture \in [Streams -> [pc : {"idle"}, left : 0..MaxLines, seq : {0}]]
    /\ srpc = "start"

SafeRunUnchanged ==
    UNCHANGED <<resolver_vars, lock_vars, exec_vars, retry_vars, hash_vars, ckpt_vars,
                exit_vars>>

NextSafeRun ==
    \/ SafeRunStart /\ SafeRunUnchanged
    \/ \E t \in Streams : FetchAdd(t) /\ SafeRunUnchanged
    \/ \E t \in Streams : EventsPush(t) /\ SafeRunUnchanged
    \/ \E t \in Streams : CaptureEnd(t) /\ SafeRunUnchanged
    \/ SafeRunExit /\ SafeRunUnchanged

SpecSafeRun == InitSafeRun /\ [][NextSafeRun]_vars

\* handle_install from the plan to the results: the plan is computed from a
\* registry and a profile that may name unregistered ids and may hold
\* cycles, and is executed if compute returned one
NoPlan == [ok |-> FALSE, err |-> NoErr, phases |-> <<>>, total_steps |-> 0]
\* the installers are all concurrency-safe or none is
InstallRegistries ==
    {r \in Registries : \A i, j \in Ids : r[i].concurrency_safe = r[j].concurrency_safe}
InstallProfiles == SeqUpTo(AllIds, MaxReq)

InitInstall ==
    /\ AuxIdle
    /\ registry \in InstallRegistries
    /\ required_tools \in InstallProfiles
    /\ rpc = "input"
    /\ resolve_out = [resolved |-> <<>>, visited |-> {}, err |-> NoErr]
    /\ plan = NoPlan
    /\ max_jobs = MaxJobs
    /\ job_permits = max_jobs
    /\ now = 0
    /\ sem = LockManagerNew
    /\ acq = [t \in Tasks |-> NoCall]
    /\ lresult = [t \in Tasks |-> LockResult("none", 0)]
    /\ guards = [k \in KeysOf(NoPlan) |-> <<>>]
    /\ epc = "compute"
    /\ phase_idx = 1
    /\ next_idx = 1
    /\ results = <<>>
    /\ all_results = <<>>
    /\ ret = Returned("none", <<>>, NoErr)
    /\ task = [k \in KeysOf(NoPlan) |-> NoTask]
    /\ phase_events = <<>>
    /\ ctx = JobsGiven(max_jobs)

\* ExecutionPlan::compute(...).await? in handle_install: an error returns
\* from the run, a stack overflow aborts the process, a plan goes to the
\* executor
Compute ==
    /\ epc = "compute"
    /\ resolve_out' = resolve_dependencies(registry, required_tools)
    /\ rpc' = "done"
    /\ plan' = compute(registry, required_tools)
    /\ IF plan'.ok
       THEN /\ epc' = "phase_begin"
            /\ UNCHANGED ret
       ELSE /\ epc' = "returned"
            /\ ret' = Returned(IF plan'.err = StackOverflow THEN "abort" ELSE "err",
                               <<>>, plan'.err)
    /\ task' = [k \in KeysOf(plan') |-> NoTask]
    /\ guards' = [k \in KeysOf(plan') |-> <<>>]
    /\ UNCHANGED <<ctx, phase_events, registry, required_tools, max_jobs, job_permits, phase_idx, next_idx,
                   results, all_results, now, sem, acq, lresult, aux_vars>>

NextInstall == Compute \/ NextExec

SpecInstall == InitInstall /\ [][NextInstall]_vars

\* handle_install from the Context to the results: the Context is made from
\* the command line, the plan is computed and executed under its budget
MaxCpus == 5
\* what the command line and the machine can give: no --jobs on a machine of
\* any size, or a number passed with --jobs / BOOTSTRAP_JOBS
ContextInputs ==
    {[ci_mode |-> ci, jobs |-> JobsNone, num_cpus |-> n] :
        ci \in BOOLEAN, n \in 1..MaxCpus}
    \cup {[ci_mode |-> ci, jobs |-> JobsSome(n), num_cpus |-> 1] :
        ci \in BOOLEAN, n \in 0..MaxJobs}
\* registries without dependencies, the installers all concurrency-safe or
\* none
ContextRegistries ==
    {[i \in Ids |-> [deps |-> <<>>, concurrency_safe |-> c]] : c \in BOOLEAN}

InitContext ==
    /\ AuxIdle
    /\ registry \in ContextRegistries
    /\ required_tools \in ExecProfiles
    /\ rpc = "input"
    /\ resolve_out = [resolved |-> <<>>, visited |-> {}, err |-> NoErr]
    /\ plan = NoPlan
    /\ max_jobs = 1
    /\ job_permits = 1
    /\ now = 0
    /\ sem = LockManagerNew
    /\ acq = [t \in Tasks |-> NoCall]
    /\ lresult = [t \in Tasks |-> LockResult("none", 0)]
    /\ guards = [k \in KeysOf(NoPlan) |-> <<>>]
    /\ epc = "context"
    /\ phase_idx = 1
    /\ next_idx = 1
    /\ results = <<>>
    /\ all_results = <<>>
    /\ ret = Returned("none", <<>>, NoErr)
    /\ task = [k \in KeysOf(NoPlan) |-> NoTask]
    /\ phase_events = <<>>
    /\ ctx = JobsGiven(1)

\* Context::with_config, and the job semaphore Executor::new sizes from it
ContextWithConfig ==
    /\ epc = "context"
    /\ \E c \in ContextInputs :
          /\ ctx' = c
          /\ max_jobs' = with_config(c.ci_mode, c.jobs, c.num_cpus)
    /\ job_permits' = max_jobs'
    /\ epc' = "compute"
    /\ UNCHANGED <<resolver_vars, lock_vars, aux_vars>>
    /\ UNCHANGED <<plan, phase_idx, next_idx, results, all_results, ret, task, phase_events>>

NextContext == ContextWithConfig \/ Compute \/ NextExec

SpecContext == InitContext /\ [][NextContext]_vars

\* the runtime runs every task that can run, and every operation returns
SpecContextFair == SpecContext /\ WF_vars(NextContext)

\* the executor with the LockManager of the module it imports, on the plans
\* of registries without dependencies
InitV2 ==
    /\ AuxIdle
    /\ registry \in ContextRegistries
    /\ required_tools \in ExecProfiles
    /\ rpc = "done"
    /\ resolve_out = resolve_dependencies(registry, required_tools)
    /\ plan = compute(registry, required_tools)
    /\ max_jobs \in 1..MaxJobs
    /\ job_permits = max_jobs
    /\ now = 0
    /\ sem = V2LockManagerNew
    /\ acq = [t \in Tasks |-> NoCall]
    /\ lresult = [t \in Tasks |-> LockResult("none", 0)]
    /\ guards = [k \in KeysOf(plan) |-> <<>>]
    /\ epc = "phase_begin"
    /\ phase_idx = 1
    /\ next_idx = 1
    /\ results = <<>>
    /\ all_results = <<>>
    /\ ret = Returned("none", <<>>, NoErr)
    /\ task = [k \in KeysOf(plan) |-> NoTask]
    /\ phase_events = <<>>
    /\ ctx = JobsGiven(max_jobs)

SpecV2 == InitV2 /\ [][NextExec]_vars

\* compute applied to every registry and profile within the bounds
InitPlan ==
    /\ LocksIdle
    /\ AuxIdle
    /\ registry \in Registries
    /\ required_tools \in SeqUpTo(AllIds, MaxReq)
    /\ rpc = "input"
    /\ resolve_out = [resolved |-> <<>>, visited |-> {}, err |-> NoErr]
    /\ plan = NoPlan
    /\ max_jobs = 1
    /\ job_permits = 1
    /\ epc = "returned"
    /\ phase_idx = 1
    /\ next_idx = 1
    /\ results = <<>>
    /\ all_results = <<>>
    /\ ret = Returned("none", <<>>, NoErr)
    /\ task = [k \in KeysOf(NoPlan) |-> NoTask]
    /\ phase_events = <<>>
    /\ ctx = JobsGiven(max_jobs)

PlanCompute ==
    /\ rpc = "input"
    /\ resolve_out' = resolve_dependencies(registry, required_tools)
    /\ plan' = compute(registry, required_tools)
    /\ rpc' = "done"
    /\ UNCHANGED <<ctx, phase_events, registry, required_tools, max_jobs, job_permits, epc, phase_idx,
                   next_idx, results, all_results, ret, task>>
    /\ UNCHANGED <<lock_vars, aux_vars>>

NextPlan == PlanCompute

SpecPlan == InitPlan /\ [][NextPlan]_vars

\* two plans computed from any two registries and profiles
InitHash ==
    /\ LocksIdle
    /\ ResolverIdle
    /\ ExecIdle
    /\ RetryIdle
    /\ CkptIdle
    /\ ExitIdle
    /\ SafeRunIdle
    /\ hin \in [reg1 : ExecRegistries, tools1 : ExecProfiles,
                reg2 : ExecRegistries, tools2 : ExecProfiles]
    /\ hout = [done |-> FALSE, plan1 |-> compute(CheckpointRegistry, <<>>),
               plan2 |-> compute(CheckpointRegistry, <<>>),
               hash1 |-> <<>>, hash2 |-> <<>>, valid |-> TRUE]

NextHash == HashPlans /\ UNCHANGED <<resolver_vars, lock_vars, exec_vars, saferun_vars,
            retry_vars, ckpt_vars, exit_vars>>

SpecHash == InitHash /\ [][NextHash]_vars

\* checkpoints made, marked, saved and loaded for the working trees
InitCkpt ==
    /\ LocksIdle
    /\ ResolverIdle
    /\ ExecIdle
    /\ RetryIdle
    /\ HashIdle
    /\ ExitIdle
    /\ SafeRunIdle
    /\ cache_dir \in CacheDirs
    /\ files = [f \in CheckpointPaths |-> NoFile]
    /\ cp = None
    /\ saved = NoSave
    /\ loaded = NoLoad

CkptUnchanged == UNCHANGED <<resolver_vars, lock_vars, exec_vars, saferun_vars,
            retry_vars, hash_vars, exit_vars>>

NextCkpt ==
    \/ \E pl \in CheckpointPlans, ts \in Stamps : CkptNew(pl, ts) /\ CkptUnchanged
    \/ \E id \in CompletedIds : CkptMarkCompleted(id) /\ CkptUnchanged
    \/ \E id \in FailedIds : CkptMarkFailed(id) /\ CkptUnchanged
    \/ \E t \in Trees : CkptSave(t) /\ CkptUnchanged
    \/ \E t \in Trees : CkptLoad(t) /\ CkptUnchanged
    \/ \E f \in CheckpointPaths, x \in {NoFile} \cup {File(m) : m \in MalformedTexts} :
           CkptTamper(f, x) /\ CkptUnchanged

SpecCkpt == InitCkpt /\ [][NextCkpt]_vars

(***************************************************************************)
(* Claims about the lock manager.                                          *)
(***************************************************************************)
\* C1: for every registered lock name at most one LockGuard exists at any
\* time, whatever the interleaving of acquire, try_acquire and drop.
C1_MutualExclusion == \A n \in LockNames : GuardCount(n) <= 1

\* one task owns the guard of a lock while the other, having timed out on an
\* attempt for the same lock, sleeps before its next attempt
C1_Witness ==
    \E t, u \in Tasks :
        /\ t # u
        /\ BREW_LOCK \in Range(guards[t])
        /\ acq[u].pc = "sleep"
        /\ acq[u].name = BREW_LOCK

\* an acquire that asked for 100 ms is in progress
Asked100(t) == acq[t].pc # "idle" /\ acq[t].max_wait = 100

\* in this step the acquire of t honours a deadline of 100 ms: it is not
\* kept waiting past it, it starts no sleep and no further attempt, and if
\* the lock is still held when it returns, it returns the timeout error with
\* 100 ms waited
Honours100(t) ==
    /\ now' - acq[t].started <= 100
    /\ acq'[t].pc \in {"attempt", "idle"}
    /\ acq'[t].pc = "attempt" => acq'[t] = acq[t]
    /\ (acq'[t].pc = "idle" /\ sem[acq[t].name] = 0)
       => lresult'[t] = TimeoutError(acq[t].name, 100)

\* C14 as stated: an acquire with max_wait = 100 ms on a held lock returns
\* the acquisition failure after 100 ms, before the holder releases, in
\* either mode.
C14_DeadlineAnyMode ==
    [][\A t \in Tasks : Asked100(t) => Honours100(t)]_vars

\* C14, amended: an acquire with max_wait = 100 ms and ci_mode = false on a
\* held lock returns the acquisition failure after 100 ms, before the holder
\* releases.
C14_DeadlineHonoured ==
    [][\A t \in Tasks : (Asked100(t) /\ ~acq[t].ci_mode) => Honours100(t)]_vars

\* an acquire returned the timeout error after 100 ms while the other task
\* still holds the lock
C14_Witness ==
    \E t, u \in Tasks :
        /\ t # u
        /\ lresult[t] = TimeoutError(BREW_LOCK, 100)
        /\ acq[t].pc = "idle"
        /\ BREW_LOCK \in Range(guards[u])
        /\ now = 100

(***************************************************************************)
(* Claims about the executor.                                              *)
(***************************************************************************)
Started(k) == task[k].pc # "none"
Active(k) == task[k].pc \in {"spawned", "locking", "running"}
Finished(k) == task[k].pc = "finished"
Succeeded(k) == Finished(k) /\ IsOk(task[k].out)
InstallKeys == {k \in StepKeys : k[1] = 2}
\* every StepResult the execution has produced so far
Produced ==
    Range(results) \cup Range(all_results) \cup Range(ret.results)
    \cup {task[k].out[2] : k \in {j \in StepKeys : Succeeded(j)}}

\* C4: a step of a phase has started only if every step of every earlier
\* phase has finished.
C4_PhasesInSequence ==
    \A k, j \in StepKeys :
        (k[1] < j[1] /\ Started(j)) => Finished(k)

\* a Verify operation is running in a plan of at least two tools
C4_Witness ==
    /\ <<3, 2>> \in StepKeys
    /\ task[<<3, 1>>].pc = "running"

\* C5: the steps holding a job permit are never more than the job count.
C5_JobBudget == Cardinality({k \in StepKeys : task[k].permit}) <= max_jobs

\* every permit is taken while another spawned step waits for one
C5_Witness ==
    /\ Cardinality({k \in StepKeys : task[k].permit}) = max_jobs
    /\ \E k \in StepKeys : task[k].pc = "spawned"

\* C6: in the Installation phase at most one step is in progress, a step has
\* started only if every step declared before it has finished successfully,
\* and only if the Install step of each dependency of its capability has
\* finished successfully.
C6_InstallOrder ==
    /\ Cardinality({k \in InstallKeys : Active(k)}) <= 1
    /\ \A k \in InstallKeys : Started(k) =>
          /\ \A j \in InstallKeys : j[2] < k[2] => Succeeded(j)
          /\ \A d \in Range(registry[StepOf(k).installer].deps) :
                 \E j \in InstallKeys :
                    /\ StepOf(j).id = StepId("install", d)
                    /\ Succeeded(j)

\* the install of a capability that has a dependency is running
C6_Witness ==
    \E k \in InstallKeys :
        /\ registry[StepOf(k).installer].deps # <<>>
        /\ task[k].pc = "running"

\* C7: once an Install step has failed, no later step of the Installation
\* phase is started, its install is not invoked, and no StepResult exists
\* for it.
C7_InstallAbort ==
    \A k, j \in InstallKeys :
        (k[2] < j[2] /\ Finished(k) /\ IsErr(task[k].out))
        => /\ ~Started(j)
           /\ ~task[j].invoked
           /\ \A r \in Produced : r.step_id # StepOf(j).id

\* the install of A failed, B depends on A, and execute has returned
C7_Witness ==
    /\ epc = "returned"
    /\ \E k, j \in InstallKeys :
          /\ k[2] < j[2]
          /\ StepOf(k).installer \in Range(registry[StepOf(j).installer].deps)
          /\ ErrOf(task[k].out).kind = "InstallFailed"

\* C8: when the install operation of a step has failed and execute has
\* returned, a StepResult of that step exists with success = false and the
\* exit code of the failed installation.
C8_FailedInstallResult ==
    \A k \in InstallKeys :
        (epc = "returned" /\ ErrOf(task[k].out).kind = "InstallFailed")
        => \E r \in Produced :
              /\ r.step_id = StepOf(k).id
              /\ ~r.success
              /\ r.error.exit_code = ErrOf(task[k].out).exit_code

\* C9: when execute has returned because an Install step failed, the result
\* of every step that finished before the failure is in what it returned.
C9_EarlierResultsKept ==
    (epc = "returned" /\ ret.err.kind = "InstallFailed")
    => \A k \in StepKeys :
          Succeeded(k)
          => \E i \in DOMAIN ret.results : ret.results[i] = task[k].out[2]

\* a parallel phase has returned, with its results or with an error
PhaseReturned(p) ==
    /\ p \in DOMAIN plan.phases
    /\ plan.phases[p].can_parallelize
    /\ \/ phase_idx > p
       \/ phase_idx = p /\ epc \in {"phase_begin", "returned"}
            /\ \E i \in DOMAIN Steps(p) : Started(<<p, i>>)

\* C10: when a parallel phase has returned, every step of it has finished
\* and holds no job permit.
C10_ParallelJoined ==
    \A k \in StepKeys :
        PhaseReturned(k[1]) => Finished(k) /\ ~task[k].permit

\* the steps of the Detection and the Verification phase
SoftKeys == {k \in StepKeys : StepOf(k).action \in {"Detect", "Verify"}}

\* C11: when the detect or verify operation of a step has returned an error,
\* every other step of its phase still produces its outcome, the later
\* phases run, and execute returns the results instead of that error.
C11_DetectVerifyNonAborting ==
    \A k \in SoftKeys :
        (epc = "returned" /\ IsErr(task[k].out))
        => /\ ret.status = "ok"
           /\ \A j \in StepKeys : j[1] >= k[1] => Finished(j)

\* the Verify steps whose verify operation reported success = false
VerifyUnsuccessful ==
    {k \in StepKeys : /\ StepOf(k).action = "Verify"
                      /\ Succeeded(k)
                      /\ task[k].out[2].verify_result = "failed"}

\* C12: when the verify operation of some capability has reported an
\* unsuccessful outcome and execute has returned, it returned Ok with a
\* Verify StepResult for every capability of the plan, and the result of
\* each unsuccessful one has success = false and its issues as error.
C12_VerifyFailureNonFatal ==
    (epc = "returned" /\ VerifyUnsuccessful # {})
    => /\ ret.status = "ok"
       /\ \A i \in DOMAIN Steps(3) :
             \E r \in Range(ret.results) : r.step_id = Steps(3)[i].id
       /\ \A k \in VerifyUnsuccessful :
             \E r \in Range(ret.results) :
                /\ r.step_id = StepOf(k).id
                /\ ~r.success
                /\ r.error = Issues(StepOf(k).installer)

\* C13: every lock a step acquired is released when the step ends, on
\* every exit path: a finished step owns no guard, and every permit that no
\* unfinished step holds is back in its semaphore, so that the next acquire
\* of that name succeeds.
C13_LocksReleased ==
    /\ \A k \in StepKeys : Finished(k) => guards[k] = <<>>
    /\ \A n \in LockNames : sem[n] + GuardCount(n) = LockPermits

\* a step that held its first lock timed out on its second one, which its
\* sibling holds, and the first lock is free again
C13_Witness ==
    \E k, j \in StepKeys :
        /\ Len(StepOf(k).required_locks) = 2
        /\ Finished(k)
        /\ ErrOf(task[k].out) = LockTimeout(StepOf(k).required_locks[2])
        /\ StepOf(k).required_locks[2] \in Range(guards[j])
        /\ StepOf(k).required_locks[1] # StepOf(k).required_locks[2]
        /\ sem[StepOf(k).required_locks[1]] = LockPermits

(***************************************************************************)
(* Claims about retry_with_backoff.                                        *)
(***************************************************************************)
Failed(i) == outcomes[i] # "ok"
Transient(i) == Failed(i) /\ classify_error(outcomes[i]) = "Transient"

\* C15: an attempt that fails with an error that is not Transient is the
\* last one: retry_with_backoff has returned that error, has called the
\* operation no more, and has not slept after it; on the first attempt the
\* operation has been called exactly once.
C15_NoRetryOfPermanent ==
    \A i \in DOMAIN outcomes :
        (Failed(i) /\ ~Transient(i))
        => /\ i = Len(outcomes)
           /\ attempts = i
           /\ Len(slept) = i - 1
           /\ rtpc = "done"
           /\ rret = RetryReturned("err", outcomes[i], 0)

\* under the network policy the first attempt failed with a checksum
\* mismatch and the call has returned
C15_Witness ==
    /\ rpolicy = network_default
    /\ outcomes = <<"ChecksumMismatch">>
    /\ attempts = 1
    /\ rtpc = "done"

\* the delays follow the backoff: the first is initial_delay, each next one
\* is the double of the one before or the cap, and what is slept is the
\* delay with at most 30% of jitter added
BackoffDoubles ==
    /\ \A i \in DOMAIN slept :
          /\ slept[i][1] <= slept[i][2]
          /\ 10 * slept[i][2] <= 13 * slept[i][1]
          /\ ~rpolicy.jitter => slept[i][2] = slept[i][1]
          /\ i = 1 => slept[i][1] = rpolicy.initial_delay
          /\ i > 1 => slept[i][1] = IF 2 * slept[i - 1][1] <= rpolicy.max_delay
                                    THEN 2 * slept[i - 1][1]
                                    ELSE rpolicy.max_delay

\* C16: with max_attempts >= 1, failures that are all Transient and the time
\* budget not exhausted, the operation is called min(k, max_attempts) times,
\* k being the first successful attempt: the call returns Ok at attempt
\* k <= max_attempts, or the last error at attempt max_attempts, and the
\* delays in between double up to the cap.
C16_TransientRetried ==
    (/\ rpolicy.max_attempts >= 1
     /\ \A i \in DOMAIN outcomes : Failed(i) => Transient(i)
     /\ rret.status # "Retry timeout exceeded")
    => /\ attempts = Len(outcomes)
       /\ attempts <= rpolicy.max_attempts
       /\ \A i \in 1..(Len(outcomes) - 1) : Failed(i)
       /\ Len(slept) \in {attempts - 1, attempts}
       /\ BackoffDoubles
       /\ rtpc = "done" =>
             LET n == Len(outcomes)
             IN  /\ Len(slept) = n - 1
                 /\ IF Failed(n)
                    THEN n = rpolicy.max_attempts /\ rret = RetryReturned("err", outcomes[n], 0)
                    ELSE rret.status = "ok"

\* the third attempt succeeded after two transient failures, and the second
\* delay was the double of the first
C16_Witness ==
    /\ rtpc = "done"
    /\ rret.status = "ok"
    /\ Len(outcomes) = 3
    /\ rpolicy.max_attempts = 3
    /\ slept[2][1] = 2 * slept[1][1]
    /\ slept[1][2] > slept[1][1]

\* C17: no attempt after the first is started once max_total_time has
\* elapsed, and when the budget is exhausted before the attempts are, the
\* call returns the timeout error that wraps the last error.
C17_BudgetStops ==
    /\ attempts >= 2 => rstart < rpolicy.max_total_time
    /\ (/\ rtpc = "done"
        /\ attempts < rpolicy.max_attempts
        /\ Transient(Len(outcomes))
        /\ elapsed >= rpolicy.max_total_time)
       => rret = RetryReturned("Retry timeout exceeded", outcomes[Len(outcomes)], elapsed)

(***************************************************************************)
(* Claims about the plan hash and the checkpoint.                          *)
(***************************************************************************)
\* the second profile is the first one with a tool added at its end, and
\* the registry is the same
AddsTool ==
    /\ hin.reg1 = hin.reg2
    /\ Len(hin.tools2) = Len(hin.tools1) + 1
    /\ \A i \in DOMAIN hin.tools1 : hin.tools2[i] = hin.tools1[i]
AddedTool == hin.tools2[Len(hin.tools2)]
\* the installers a computed plan has steps for
PlannedTools(pl) == {pl.phases[1].steps[i].installer : i \in DOMAIN pl.phases[1].steps}

NamesAndIds(pl) ==
    [p \in DOMAIN pl.phases |->
        [name |-> pl.phases[p].name,
         ids |-> [i \in DOMAIN pl.phases[p].steps |-> pl.phases[p].steps[i].id]]]

\* C19 as stated: two plans that differ in anything (step ids, order, phase
\* names, a step's action, dependencies, concurrency flag or required locks,
\* a phase's parallelizable flag) have different hashes, and a checkpoint of
\* one is not valid for the other.
C19_AnyChangeChangesHash ==
    (hout.done /\ hout.plan1 # hout.plan2)
    => /\ hout.hash1 # hout.hash2
       /\ ~hout.valid

\* C19, amended: two computed plans have different hashes exactly when
\* their phase names, step ids or step order differ, and a checkpoint of one
\* is valid for the other exactly when the hashes are equal.
C19_IdsChangeHash ==
    hout.done =>
        /\ (NamesAndIds(hout.plan1) # NamesAndIds(hout.plan2)) <=> (hout.hash1 # hout.hash2)
        /\ hout.valid <=> (hout.hash1 = hout.hash2)

\* two plans of the same tools in a different order: the hashes differ and
\* the checkpoint of one is stale for the other
C19_Witness ==
    /\ hout.done
    /\ Len(hin.tools1) = 2
    /\ PlannedTools(hout.plan1) = PlannedTools(hout.plan2)
    /\ hout.plan1.total_steps = hout.plan2.total_steps
    /\ NamesAndIds(hout.plan1) # NamesAndIds(hout.plan2)
    /\ hout.hash1 # hout.hash2
    /\ ~hout.valid

LoadedFileExists ==
    /\ loaded.status # "none"
    /\ cache_dir # "none"
    /\ files[default_checkpoint_path(cache_dir, loaded.tree)].exists
\* and it is malformed
LoadedFileMalformed ==
    /\ LoadedFileExists
    /\ files[default_checkpoint_path(cache_dir, loaded.tree)].text \in MalformedTexts

Computed == rpc = "done" /\ plan.ok
DetectionPhase == plan.phases[1]
InstallationPhase == plan.phases[2]
VerificationPhase == plan.phases[3]

\* C22: every plan compute returns has exactly the phases Detection
\* (parallelizable), Installation (not parallelizable) and Verification
\* (parallelizable) in this order; each phase has one step per resolved
\* capability, in resolver order; the step ids of the plan are all distinct;
\* total_steps is the number of steps over all phases.
C22_PlanShape ==
    Computed =>
        /\ Len(plan.phases) = 3
        /\ DetectionPhase.name = "Detection" /\ DetectionPhase.can_parallelize
        /\ InstallationPhase.name = "Installation" /\ ~InstallationPhase.can_parallelize
        /\ VerificationPhase.name = "Verification" /\ VerificationPhase.can_parallelize
        /\ \A p \in 1..3 :
              /\ Len(plan.phases[p].steps) = Len(resolve_out.resolved)
              /\ \A i \in DOMAIN plan.phases[p].steps :
                     plan.phases[p].steps[i].installer = resolve_out.resolved[i]
        /\ \A k1, k2 \in KeysOf(plan) :
              plan.phases[k1[1]].steps[k1[2]].id = plan.phases[k2[1]].steps[k2[2]].id
                  => k1 = k2
        /\ plan.total_steps = Cardinality(KeysOf(plan))

\* one tool requested, and a plan of three steps per phase: its dependencies
\* were pulled in
C22_Witness ==
    /\ Computed
    /\ Len(required_tools) = 1
    /\ Len(resolve_out.resolved) = 3
    /\ plan.total_steps = 9

\* C23: in every computed plan the dependencies of the Install step of a
\* capability are exactly the Install steps of its declared dependency ids,
\* each of them a step at an earlier position of the Installation phase;
\* each Verify step depends exactly on the Install step of its capability;
\* Detect steps have no dependencies.
C23_StepDependencies ==
    Computed =>
        /\ \A i \in DOMAIN InstallationPhase.steps :
              LET st == InstallationPhase.steps[i]
                  deps == registry[st.installer].deps
              IN  /\ Len(st.dependencies) = Len(deps)
                  /\ \A k \in DOMAIN deps :
                        \E j \in 1..(i - 1) :
                            /\ InstallationPhase.steps[j].installer = deps[k]
                            /\ InstallationPhase.steps[j].action = "Install"
                            /\ InstallationPhase.steps[j].id = st.dependencies[k]
        /\ \A i \in DOMAIN VerificationPhase.steps :
              VerificationPhase.steps[i].dependencies = <<InstallationPhase.steps[i].id>>
        /\ \A i \in DOMAIN DetectionPhase.steps :
              DetectionPhase.steps[i].dependencies = <<>>

\* the requested tool resolved last, after its dependency
C23_Witness ==
    /\ Computed
    /\ Len(InstallationPhase.steps) >= 2
    /\ \E i \in DOMAIN InstallationPhase.steps :
          /\ i > 1
          /\ InstallationPhase.steps[i].dependencies # <<>>
          /\ InstallationPhase.steps[i].installer = required_tools[1]

\* C24: in every computed plan an Install step requires the package-manager
\* lock if and only if its capability is not concurrency-safe, and every
\* Detect and Verify step requires no lock and is marked concurrency-safe.
C24_LocksOfSteps ==
    Computed =>
        /\ \A i \in DOMAIN InstallationPhase.steps :
              LET st == InstallationPhase.steps[i]
              IN  /\ (PACKAGE_MANAGER_LOCK \in Range(st.required_locks))
                        <=> ~registry[st.installer].concurrency_safe
                  /\ Range(st.required_locks) \subseteq {PACKAGE_MANAGER_LOCK}
        /\ \A p \in {1, 3} : \A i \in DOMAIN plan.phases[p].steps :
              /\ plan.phases[p].steps[i].required_locks = <<>>
              /\ plan.phases[p].steps[i].concurrency_safe

\* a plan with an Install step that takes the lock and one that does not
C24_Witness ==
    /\ Computed
    /\ \E i, j \in DOMAIN InstallationPhase.steps :
          /\ InstallationPhase.steps[i].required_locks = <<PACKAGE_MANAGER_LOCK>>
          /\ InstallationPhase.steps[j].required_locks = <<>>
          /\ ~registry[InstallationPhase.steps[i].installer].concurrency_safe
          /\ registry[InstallationPhase.steps[j].installer].concurrency_safe

(***************************************************************************)
(* Claims about the resolver.                                              *)
(***************************************************************************)
NoDuplicates(s) == \A i, j \in DOMAIN s : s[i] = s[j] => i = j
DepsBefore(reg, s) ==
    \A i \in DOMAIN s :
        \A d \in Range(reg[s[i]].deps) : \E j \in 1..(i - 1) : s[j] = d

\* C2: when every referenced id is registered and the dependency graph is
\* acyclic, resolve_dependencies succeeds with a sequence that repeats no id
\* and lists every id's declared dependencies strictly before the id.
C2_ResolvedOrdered ==
    (/\ rpc = "done"
     /\ AllRegistered(registry, required_tools)
     /\ ~CycleReachable(registry, required_tools))
    => /\ resolve_out.err.kind = "none"
       /\ NoDuplicates(resolve_out.resolved)
       /\ DepsBefore(registry, resolve_out.resolved)

\* a dependent requested before its own dependency, and both resolved
C2_Witness ==
    /\ rpc = "done"
    /\ AllRegistered(registry, required_tools)
    /\ ~CycleReachable(registry, required_tools)
    /\ Len(required_tools) = 2
    /\ required_tools[2] \in Range(registry[required_tools[1]].deps)
    /\ resolve_out.resolved = <<required_tools[2], required_tools[1]>>

\* C3: when a cycle is reachable from the requested ids (all of them
\* registered), resolve_dependencies returns the CyclicDependency error and
\* its recursion stays bounded.
C3_CycleYieldsError ==
    (/\ rpc = "done"
     /\ AllRegistered(registry, required_tools)
     /\ CycleReachable(registry, required_tools))
    => resolve_out.err = CyclicDependency

\* C25: when a requested id or one of its transitive dependencies is not in
\* the registry, resolve_dependencies fails with the tool-not-found error
\* that names such an id, and returns no sequence.
C25_UnknownIdNamed ==
    (rpc = "done" /\ ~AllRegistered(registry, required_tools)) =>
        /\ ~ResolveReturn(resolve_out).ok
        /\ ResolveReturn(resolve_out).value = <<>>
        /\ resolve_out.err.kind = "ToolNotFound"
        /\ resolve_out.err.id \in Reachable(registry, Range(required_tools)) \ DOMAIN registry

\* C26: when resolving the tool list of the profile fails, on an unknown id
\* or on a cycle, compute returns that error, the plan has no phases and no
\* steps, and no detect, install or verify operation is invoked in the run.
C26_ResolutionErrorAborts ==
    (/\ epc # "compute"
     /\ ~AllRegistered(registry, required_tools) \/ CycleReachable(registry, required_tools))
    => /\ ret.status = "err"
       /\ ret.err.kind \in {"ToolNotFound", "CyclicDependency"}
       /\ plan.phases = <<>> /\ plan.total_steps = 0
       /\ \A k \in StepKeys : ~task[k].invoked

\* a call of task t has just failed on an unknown lock name
FailsUnknown(t) == lresult'[t] # lresult[t] /\ lresult'[t].status = "unknown"

\* C27: acquire and try_acquire with a name that is not registered fail at
\* once: no task ever waits or sleeps for such a name, and the step that
\* reports the error takes no time and leaves every semaphore and every
\* guard as it was.
C27_UnknownLockFailsAtOnce ==
    /\ [](\A t \in Tasks : acq[t].pc # "idle" => acq[t].name \in LockNames)
    /\ [][\A t \in Tasks :
            FailsUnknown(t) =>
                /\ lresult'[t].elapsed = 0
                /\ now' = now /\ sem' = sem /\ guards' = guards
                /\ acq'[t].pc = "idle"]_vars

\* a call failed on an unknown name while another task held a lock
C27_Witness ==
    \E t, u \in Tasks :
        /\ t # u
        /\ lresult[t].status = "unknown"
        /\ acq[t].pc = "idle"
        /\ guards[u] # <<>>
        /\ \E n \in LockNames : sem[n] = 0

RECURSIVE StepIdsFrom(_, _)
\* the step ids of the plan from phase p on, phase by phase in step order
StepIdsFrom(pl, p) ==
    IF p > Len(pl.phases) THEN <<>>
    ELSE [i \in DOMAIN pl.phases[p].steps |-> pl.phases[p].steps[i].id]
         \o StepIdsFrom(pl, p + 1)

\* C28: when execute succeeds it returns one StepResult per step of the
\* plan, the phases in plan order and the steps of each phase in step
\* order, whether the phase ran sequentially or in parallel.
C28_ResultsInPlanOrder ==
    ret.status = "ok" =>
        /\ Len(ret.results) = Len(StepIdsFrom(plan, 1))
        /\ \A i \in DOMAIN ret.results :
              ret.results[i].step_id = StepIdsFrom(plan, 1)[i]

\* execute succeeded on a plan of two steps per phase with two jobs
C28_Witness ==
    /\ ret.status = "ok"
    /\ max_jobs >= 2
    /\ Len(ret.results) = 6
    /\ \A p \in DOMAIN plan.phases : Len(plan.phases[p].steps) = 2

\* the tool of the failure is one of a family named by a prefix
InFamily(prefixes) == \E q \in prefixes : starts_with(berr.tool, q)

C30_RunningThenOutcome ==
    \A k \in StepKeys :
        /\ (task[k].pc = "running" /\ task[k].notes # <<>>)
              => /\ task[k].notes = <<"running">>
                 /\ guards[k] = StepOf(k).required_locks
        /\ (Finished(k) /\ task[k].notes # <<>>)
              => /\ Len(task[k].notes) = 2
                 /\ task[k].notes[1] = "running"
                 /\ task[k].notes[2] \in {"success", "failed"}

\* the step is between two acquisitions of its lock loop
AcquiringNext(k) ==
    task[k].pc = "locking" /\ Len(guards[k]) < Len(StepOf(k).required_locks)
\* the lock it asks for next
AskedNext(k) == StepOf(k).required_locks[Len(guards[k]) + 1]

\* C31: the steps acquire their required locks in one global order, whatever
\* the order of their required_locks lists, so that no two running steps
\* each hold a lock the other one is waiting for.
C31_NoCircularWait ==
    \A k, j \in StepKeys :
        (k # j /\ AcquiringNext(k) /\ AcquiringNext(j)) =>
            ~(/\ AskedNext(k) \in Range(guards[j])
              /\ AskedNext(j) \in Range(guards[k]))

RECURSIVE AttemptTimeout(_)
\* the timeout of the attempt after n failed ones: 100, 200, 400, 800, 1600,
\* 2000, 2000, ... ms
AttemptTimeout(n) ==
    IF n = 0 THEN 100
    ELSE IF 2 * AttemptTimeout(n - 1) > 2000 THEN 2000 ELSE 2 * AttemptTimeout(n - 1)

RECURSIVE TimeoutsBefore(_)
\* the time the n failed attempts before an attempt have taken
TimeoutsBefore(n) == IF n = 0 THEN 0 ELSE TimeoutsBefore(n - 1) + AttemptTimeout(n - 1)

\* the overall deadline of a call
Deadline(c) == IF c.ci_mode THEN 60000 ELSE IF c.max_wait < 180000 THEN c.max_wait ELSE 180000

C38_NoGuardAfterDeadline ==
    [][\A t \in Tasks :
          (acq[t].pc = "attempt" /\ acq'[t].pc = "idle" /\ lresult'[t].status = "ok")
              => now - acq[t].started <= acq[t].effective_max_wait]_vars

(***************************************************************************)
(* C33: phase notifications                                                *)
(***************************************************************************)
\* the notifications come in pairs, started then completed of one phase, in
\* the order of the plan
PhaseEventsPaired ==
    \A i \in DOMAIN phase_events :
        /\ phase_events[i][2] = plan.phases[(i + 1) \div 2].name
        /\ phase_events[i][1] = IF i % 2 = 1 THEN "PhaseStarted" ELSE "PhaseCompleted"

\* C33: every phase execute begins is reported as started and, by the time
\* execute has returned, as completed, the completion of a phase coming
\* before the start of the next one.
C33_PhaseStartedThenCompleted ==
    /\ PhaseEventsPaired
    /\ (epc = "returned" /\ ret.status # "none") => Len(phase_events) % 2 = 0

(***************************************************************************)
(* C34, C36: the concurrency budget                                        *)
(***************************************************************************)
\* the Context was made without a jobs argument
DefaultBudget == epc # "context" /\ ~ctx.jobs.some

\* C34: the default budget is 2 in CI mode and between 2 and 4 otherwise,
\* whatever the number of processing units.
C34_DefaultJobsRange ==
    DefaultBudget =>
        IF ctx.ci_mode THEN max_jobs = 2 ELSE max_jobs >= 2 /\ max_jobs <= 4

\* C36: execute returns for every computed plan under every budget the
\* Context can carry.
C36_ExecuteReturns == <>(epc = "returned")

(***************************************************************************)
(* C35: the event ledger of safe-run                                       *)
(***************************************************************************)
\* the sequence numbers in the ledger are 1..N, each once
LedgerGapFree ==
    /\ \A i, j \in DOMAIN events : events[i].seq = events[j].seq => i = j
    /\ {events[i].seq : i \in DOMAIN events} = 1..Len(events)

\* C35: under every interleaving of the capture threads and the main thread
\* the ledger holds the sequence numbers 1..N, each once, in strictly
\* increasing order.
C35_LedgerInSequence ==
    /\ srpc = "exited" => LedgerGapFree
    /\ \A i, j \in DOMAIN events : i < j => events[i].seq < events[j].seq

(***************************************************************************)
(* C37: the locks of a computed plan are registered                        *)
(***************************************************************************)
\* C37: no step of a computed plan fails with the unknown-lock error: every
\* name in its required_locks is registered in the executor's LockManager.
C37_PlanLocksRegistered ==
    /\ \A k \in StepKeys : \A i \in DOMAIN StepOf(k).required_locks :
          StepOf(k).required_locks[i] \in DOMAIN sem
    /\ \A k \in StepKeys :
          (Finished(k) /\ IsErr(task[k].out))
              => ErrOf(task[k].out).kind # UnknownLock("").kind

(***************************************************************************)
(* C39: the sleeps of retry_with_backoff                                   *)
(***************************************************************************)
\* C39: every sleep between two attempts is at most max_delay, and at most
\* 1.3 x max_delay under jitter, whatever the policy.
C39_SleepWithinMaxDelay ==
    \A i \in DOMAIN slept :
        slept[i][2] * 10 <= rpolicy.max_delay * (IF rpolicy.jitter THEN 13 ELSE 10)

(***************************************************************************)
(* C40: the lists of a Checkpoint                                          *)
(***************************************************************************)
\* C40: after any calls of mark_completed and mark_failed neither list names
\* an id twice, and no id is in both lists.
C40_ListsDisjoint ==
    cp.some =>
        /\ NoDuplicates(cp.v.completed_steps)
        /\ NoDuplicates(cp.v.failed_steps)
        /\ Range(cp.v.completed_steps) \cap Range(cp.v.failed_steps) = {}
====
